---- MODULE Spec2Model ----
(***************************************************************************)
(* State-machine model of the network eBPF loader (NetBpfLoad): doLoad,    *)
(* loadAllElfObjects, loadProg, createMaps and loadCodeSections, with the  *)
(* bpf filesystem and the kernel as the environment.  Every step that an   *)
(* outside reader of /sys/fs/bpf could observe is one action.              *)
(***************************************************************************)
EXTENDS Integers, Sequences, FiniteSets, TLC

VARIABLES
    env,          \* the environment snapshot (kernel version, api level, ...)
    dirs,         \* dirs[l]: the ELF objects readdir() returns for location l
    faultBudget,  \* how many more pin/rename/chmod/chown calls the kernel fails
    pc,           \* position of the single loader thread
    run,          \* which run of the loader this is
    bpfloader_ver,\* doLoad: bpfloader_ver
    locIdx,       \* doLoad: index into locations[]
    objIdx,       \* loadAllElfObjects: how many directory entries were read
    retVal,       \* loadAllElfObjects: retVal
    mapIdx,       \* createMaps: i
    mapFds,       \* loadProg: mapFds
    csIdx,        \* loadCodeSections: i
    fd,           \* createMaps / loadCodeSections: fd of the item in hand
    progFds,      \* loadProg: cs[i].prog_fd of the code sections gone through
    csData,       \* loadProg: cs[i].data, the instructions of each code section
    openFds,      \* the process's descriptor table: number -> what is open
    fs,           \* the bpf filesystem: pin path -> pinned object
    exitCode,     \* exit status of the process (NoExit while running)
    log,          \* history: BPF_MAP_CREATE / BPF_PROG_LOAD calls of this run
    rets,         \* history: loadProg results of this run
    conflicts,    \* history: reused maps whose shape differed from the MapDef
    snap,         \* history: the pin paths at the end of the previous run
    scalars,      \* loadProg: the five scalars it read last, and from which object
    shReads,      \* history: the section headers readCodeSections read when it
                  \* looked for a relocation section, and whether they exist
    mkdirs,       \* history: the directories createSysFsBpfSubDir has made or
                  \* found in this run, in the order of the calls
    records,      \* loadProg: pd and md as bytes, the vectors that readProgDefs
                  \* and createMaps filled last, and from which object
    reqs,         \* history: the bpf_attr of every BPF_MAP_CREATE of this run
    vlogs         \* history: the code sections whose verifier log this run
                  \* has written to the log

vars == <<env, dirs, faultBudget, pc, run, bpfloader_ver, locIdx, objIdx, retVal,
          mapIdx, mapFds, csIdx, fd, progFds, csData, openFds, fs, exitCode, log,
          rets, conflicts, snap, scalars, shReads, mkdirs, records, reqs, vlogs>>

-----------------------------------------------------------------------------
(* Bounds of the model *)

\* number of loader runs over the same ELF set and environment
MaxRuns == 2
\* number of syscall failures the environment may inject in all runs together
MaxFaults == 1
\* number of ELF objects per location directory
MaxObjs == 2

-----------------------------------------------------------------------------
(* Program constants *)

BPF_FS_PATH == "/sys/fs/bpf/"
DEFAULT_BPFLOADER_MIN_VER == 0
DEFAULT_BPFLOADER_MAX_VER == 65536
DEFAULT_SIZEOF_BPF_MAP_DEF == 32
DEFAULT_SIZEOF_BPF_PROG_DEF == 20
\* 0xFFFFFFFF in the code; kernel versions are 24-bit, so the largest integer
\* TLC can hold is used: it also exceeds every kernel version
KVER_INF == 2147483647
BPF_F_RDONLY_PROG == 128
page_size == 4096
PROG_MODE == 288            \* 0440
ENOTDIR == 20
ENOTUNIQ == 76
EINVAL == 22
EIO == 5
EEXIST == 17
BPF_LD_IMM_DW == 24         \* BPF_LD | BPF_IMM | BPF_DW, 0x18
BPF_PSEUDO_MAP_FD == 1
sizeof_bpf_insn == 8
sizeof_Elf64_Rel == 16

NoExit == -1
EXIT_ABORT == 134           \* abort(): the process dies on SIGABRT
EXIT_KILLED == 139          \* the process dies on SIGSEGV
EXIT_EXECVE == 100          \* control handed to the platform bpfloader

__ANDROID_API_S__ == 31
__ANDROID_API_T__ == 33
__ANDROID_API_U__ == 34
__ANDROID_API_V__ == 35

KVER(a, b, c) == a * 65536 + b * 256 + c

kernelVersion == env.kvers

isAtLeastKernelVersion(a, b, c) == kernelVersion >= KVER(a, b, c)

getBuildType == env.buildType
isEng == getBuildType = "eng"
isUser == getBuildType = "user"
isUserdebug == getBuildType = "userdebug"

isArm == env.arch = "arm"
isX86 == env.arch = "x86"
isRiscV == env.arch = "riscv"
isKernel64Bit == env.kernel64
isKernel32Bit == ~env.kernel64

\* locations[]: the pin prefix of each search location, in declared order
locations == << "tethering/", "netd_shared/", "netd_readonly/", "net_shared/",
                "net_private/" >>

-----------------------------------------------------------------------------
(* domain: selinux_context and pin_subdir tokens *)

\* Location::dir of locations[l], as tokens
locationDir(l) ==
    <<"/", "apex", "/", "com", ".", "android", ".", "tethering", "/", "etc", "/", "bpf", "/">>
    \o (IF l = 1 THEN << >>
        ELSE << <<"", "netd_shared", "netd_readonly", "net_shared", "net_private">>[l], "/" >>)

AllDomains == << "unspecified", "tethering", "net_private", "net_shared",
                 "netd_readonly", "netd_shared" >>

unrecognized(d) == d = "unrecognized"

specified(d) == d # "unspecified"

lookupSelinuxContext(d) ==
    CASE d = "unspecified"   -> ""
      [] d = "tethering"     -> "fs_bpf_tethering"
      [] d = "net_private"   -> "fs_bpf_net_private"
      [] d = "net_shared"    -> "fs_bpf_net_shared"
      [] d = "netd_readonly" -> "fs_bpf_netd_readonly"
      [] d = "netd_shared"   -> "fs_bpf_netd_shared"
      [] OTHER               -> "(unrecognized)"

lookupPinSubdir(d, unspec) ==
    CASE d = "unspecified"   -> unspec
      [] d = "tethering"     -> "tethering/"
      [] d = "net_private"   -> "net_private/"
      [] d = "net_shared"    -> "net_shared/"
      [] d = "netd_readonly" -> "netd_readonly/"
      [] d = "netd_shared"   -> "netd_shared/"
      [] OTHER               -> "(unrecognized)"

\* the first domain of AllDomains whose token equals s; unknown tokens degrade
\* to unspecified
getDomainFromSelinuxContext(s) ==
    LET hits == {i \in 1..Len(AllDomains) : lookupSelinuxContext(AllDomains[i]) = s}
    IN  IF hits = {} THEN "unspecified"
        ELSE AllDomains[CHOOSE i \in hits : \A j \in hits : i <= j]

\* the first domain of AllDomains whose token equals s; unknown tokens are an
\* error for the caller
getDomainFromPinSubdir(s) ==
    LET hits == {i \in 1..Len(AllDomains) : lookupPinSubdir(AllDomains[i], "") = s}
    IN  IF hits = {} THEN "unrecognized"
        ELSE AllDomains[CHOOSE i \in hits : \A j \in hits : i <= j]

\* Names are sequences of tokens: each of the characters the code searches
\* for ('/', '.', '@', '$') is a token of its own, any other run of characters
\* is one token.  Str is the string a token sequence spells.
RECURSIVE Str(_)
Str(toks) == IF toks = << >> THEN "" ELSE Head(toks) \o Str(Tail(toks))

\* std::string::find_last_of(ch): the last position of ch, npos (0 here) if none
find_last_of(toks, ch) ==
    LET at == {i \in DOMAIN toks : toks[i] = ch}
    IN  IF at = {} THEN 0 ELSE CHOOSE i \in at : \A j \in at : j <= i

\* toks.substr(0, toks.find_last_of(ch)): npos keeps the whole string
stripFromLast(toks, ch) ==
    IF find_last_of(toks, ch) = 0 THEN toks ELSE SubSeq(toks, 1, find_last_of(toks, ch) - 1)

\* android::base::Split(path, "/").back()
basename(toks) == SubSeq(toks, find_last_of(toks, "/") + 1, Len(toks))

pathToObjName(file) == Str(stripFromLast(stripFromLast(basename(file), "."), "@"))

\* readCodeSections: std::replace(name.begin(), name.end(), '/', '_')
csName(c) == Str([i \in DOMAIN c.section |-> IF c.section[i] = "/" THEN "_" ELSE c.section[i]])

-----------------------------------------------------------------------------
(* Scalar sections.  A section of the object is [present, bytes]; the       *)
(* object's field named like the section holds it.                          *)

\* faulty variant of readSectionUint: the four bytes are taken most significant
\* first
readSectionUintBigEndian(name, o, defVal) ==
    LET theBytes == o[name].bytes
    IN  IF ~o[name].present THEN defVal
        ELSE IF Len(theBytes) < 4 THEN defVal
        ELSE ((theBytes[1] * 256 + theBytes[2]) * 256 + theBytes[3]) * 256 + theBytes[4]

\* readSectionUint(name, elfFile, defVal); theBytes[k] of the code is
\* theBytes[k + 1] here
readSectionUint(name, o, defVal) ==
    LET theBytes == o[name].bytes
    IN  IF ~o[name].present THEN defVal
        ELSE IF Len(theBytes) < 4 THEN defVal
        ELSE ((theBytes[4] * 256 + theBytes[3]) * 256 + theBytes[2]) * 256 + theBytes[1]

\* loadProg: the five scalars it reads, with their defaults
bpfLoaderMinVer(o) == readSectionUint("bpfloader_min_ver", o, DEFAULT_BPFLOADER_MIN_VER)
bpfLoaderMaxVer(o) == readSectionUint("bpfloader_max_ver", o, DEFAULT_BPFLOADER_MAX_VER)
bpfLoaderMinRequiredVer(o) == readSectionUint("bpfloader_min_required_ver", o, 0)
sizeOfBpfMapDef(o) == readSectionUint("size_of_bpf_map_def", o, DEFAULT_SIZEOF_BPF_MAP_DEF)
sizeOfBpfProgDef(o) == readSectionUint("size_of_bpf_prog_def", o, DEFAULT_SIZEOF_BPF_PROG_DEF)

-----------------------------------------------------------------------------
(* The symbol table.  A symbol is [name, sec, value, type]: its name, the   *)
(* name of the section st_shndx refers to, st_value and the symbol type.    *)

\* std::sort(symCompare) over a sequence of symbols: ascending st_value (the
\* symbols of one section have distinct values)
RECURSIVE sortByValue(_)
sortByValue(syms) ==
    IF syms = << >> THEN << >>
    ELSE LET i == CHOOSE i \in DOMAIN syms :
                     \A j \in DOMAIN syms :
                        \/ syms[i].value < syms[j].value
                        \/ syms[i].value = syms[j].value /\ i <= j
             rest == [k \in 1..(Len(syms) - 1) |-> IF k < i THEN syms[k] ELSE syms[k + 1]]
         IN  <<syms[i]>> \o sortByValue(rest)

\* faulty variant of readSymTab: the table is left in the order of the file
readSymTabInFileOrder(o, sort) == o.symtab

\* readSymTab(elfFile, sort, data)
readSymTab(o, sort) == IF sort THEN sortByValue(o.symtab) ELSE o.symtab

RECURSIVE namesIn(_, _)
namesIn(syms, sectionName) ==
    IF syms = << >> THEN << >>
    ELSE (IF Head(syms).sec = sectionName THEN <<Head(syms).name>> ELSE << >>)
         \o namesIn(Tail(syms), sectionName)

\* getSectionSymNames(elfFile, sectionName, names): the names of the symbols
\* of that section, in the order of the sorted symbol table
getSectionSymNames(o, sectionName) == namesIn(readSymTab(o, TRUE), sectionName)

-----------------------------------------------------------------------------
(* Gating and the effective map parameters (createMaps) *)

\* x | bit, for a single-bit mask
BitOr(x, bit) == IF (x \div bit) % 2 = 1 THEN x ELSE x + bit

\* createMaps / loadCodeSections: the build-flavor and platform ignore bits
ignoredOnBuild(d) ==
    \/ d.ignore_on_eng /\ isEng
    \/ d.ignore_on_user /\ isUser
    \/ d.ignore_on_userdebug /\ isUserdebug

ignoredOnArch(d) ==
    \/ isArm /\ isKernel32Bit /\ d.ignore_on_arm32
    \/ isArm /\ isKernel64Bit /\ d.ignore_on_aarch64
    \/ isX86 /\ isKernel32Bit /\ d.ignore_on_x86_32
    \/ isX86 /\ isKernel64Bit /\ d.ignore_on_x86_64
    \/ isRiscV /\ d.ignore_on_riscv64

\* createMaps: the six "skipping map" tests
mapSkipped(m) ==
    \/ bpfloader_ver < m.bpfloader_min_ver
    \/ bpfloader_ver >= m.bpfloader_max_ver
    \/ kernelVersion < m.min_kver
    \/ kernelVersion >= m.max_kver
    \/ ignoredOnBuild(m)
    \/ ignoredOnArch(m)

\* loadCodeSections: the tests that make the loop `continue`
progSkipped(p) ==
    \/ kernelVersion < p.min_kver
    \/ kernelVersion >= p.max_kver
    \/ bpfloader_ver < p.bpfloader_min_ver
    \/ bpfloader_ver >= p.bpfloader_max_ver
    \/ ignoredOnBuild(p)
    \/ ignoredOnArch(p)

\* createMaps: `type` after the devmap substitutions
effectiveType(m) ==
    IF m.type = "DEVMAP" /\ ~isAtLeastKernelVersion(4, 14, 0) THEN "ARRAY"
    ELSE IF m.type = "DEVMAP_HASH" /\ ~isAtLeastKernelVersion(5, 4, 0) THEN "HASH"
    ELSE m.type

\* createMaps: `max_entries` after the ringbuf round-up
effectiveMaxEntries(m, type) ==
    IF type = "RINGBUF" /\ m.max_entries < page_size THEN page_size
    ELSE m.max_entries

\* mapMatchesExpectations: desired_map_flags
desiredMapFlags(m, type) ==
    IF type \in {"DEVMAP", "DEVMAP_HASH"} THEN BitOr(m.map_flags, BPF_F_RDONLY_PROG)
    ELSE m.map_flags

\* faulty variant of mapMatchesExpectations: the value size is not compared
mapMatchesButValueSize(k, m, type) ==
    IF ~isAtLeastKernelVersion(4, 14, 0) THEN TRUE
    ELSE /\ k.type = type
         /\ k.key_size = m.key_size
         /\ k.max_entries = effectiveMaxEntries(m, type)
         /\ k.map_flags = desiredMapFlags(m, type)

\* faulty variant of mapMatchesExpectations: the check is skipped on every kernel
mapMatchesAlways(k, m, type) == TRUE

\* mapMatchesExpectations(fd, mapName, mapDef, type), k being the map behind fd
mapMatchesExpectations(k, m, type) ==
    IF ~isAtLeastKernelVersion(4, 14, 0) THEN TRUE
    ELSE /\ k.type = type
         /\ k.key_size = m.key_size
         /\ k.value_size = m.value_size
         /\ k.max_entries = effectiveMaxEntries(m, type)
         /\ k.map_flags = desiredMapFlags(m, type)

\* faulty variant of mapCreateReq: the flags are those that
\* mapMatchesExpectations will look for
mapCreateReqDesiredFlags(m, type) ==
    [map_type |-> type, key_size |-> m.key_size, value_size |-> m.value_size,
     max_entries |-> effectiveMaxEntries(m, type), map_flags |-> desiredMapFlags(m, type)]

\* createMaps: `union bpf_attr req` for MapDef m, type being the effective type
mapCreateReq(m, type) ==
    [map_type |-> type, key_size |-> m.key_size, value_size |-> m.value_size,
     max_entries |-> effectiveMaxEntries(m, type), map_flags |-> m.map_flags]

\* bpf(BPF_MAP_CREATE, req): the kernel makes the map as requested; devmaps get
\* BPF_F_RDONLY_PROG from the kernel's dev_map_init_map()
bpfMapCreate(m, type) ==
    LET req == mapCreateReq(m, type)
    IN  [kind |-> "map", type |-> req.map_type, key_size |-> req.key_size,
         value_size |-> req.value_size, max_entries |-> req.max_entries,
         map_flags |-> IF req.map_type \in {"DEVMAP", "DEVMAP_HASH"}
                       THEN BitOr(req.map_flags, BPF_F_RDONLY_PROG) ELSE req.map_flags,
         insns |-> << >>]

\* bpf(BPF_PROG_LOAD, req) for a code section the verifier accepts: the
\* program the kernel keeps is made of the instructions req.insns points at
bpfProgLoad(c, insns) ==
    [kind |-> "prog", type |-> csName(c), key_size |-> 0, value_size |-> 0,
     max_entries |-> 0, map_flags |-> 0, insns |-> insns]

-----------------------------------------------------------------------------
(* Relocation.  An instruction is [code, imm, src_reg]; a relocation record *)
(* is [r_offset, r_sym], r_sym being ELF64_R_SYM(r_info).  The inputs keep  *)
(* r_offset inside the code section.                                        *)

\* faulty variant of applyRelo: the opcode of the instruction is not looked at
applyReloAnyOpcode(insns, offset, fdNum) ==
    LET insnIndex == offset \div sizeof_bpf_insn
    IN  [insns EXCEPT ![insnIndex + 1].imm = fdNum,
                      ![insnIndex + 1].src_reg = BPF_PSEUDO_MAP_FD]

\* applyRelo(insnsPtr, offset, fd); insns[k] of the code is insns[k + 1] here
applyRelo(insns, offset, fdNum) ==
    LET insnIndex == offset \div sizeof_bpf_insn
    IN  IF insns[insnIndex + 1].code # BPF_LD_IMM_DW THEN insns
        ELSE [insns EXCEPT ![insnIndex + 1].imm = fdNum,
                           ![insnIndex + 1].src_reg = BPF_PSEUDO_MAP_FD]

\* getSymNameByIdx(elfFile, index, name) returns non-zero
noSymAt(o, index) == index >= Len(readSymTab(o, FALSE))

\* faulty variant of getSymNameByIdx: the index is applied to the sorted table
getSymNameByIdxSorted(o, index) == readSymTab(o, TRUE)[index + 1].name

\* getSymNameByIdx(elfFile, index, name): the name; symtab[k] of the code is
\* symtab[k + 1] here
getSymNameByIdx(o, index) == readSymTab(o, FALSE)[index + 1].name

\* cs[k].rel_data.size() of code section c
relDataSize(c) == Len(c.rel_data) * sizeof_Elf64_Rel + c.rel_extra

\* applyMapRelo: `int n_rel = cs[k].rel_data.size() / sizeof(*rel)`
n_rel(c) == relDataSize(c) \div sizeof_Elf64_Rel

\* the relocation records of all code sections in the order applyMapRelo
\* visits them, each with the index k of its section
RECURSIVE relsFrom(_, _)
relsFrom(sections, k) ==
    IF k > Len(sections) THEN << >>
    ELSE [i \in 1..n_rel(sections[k]) |-> [k |-> k, rel |-> sections[k].rel_data[i]]]
         \o relsFrom(sections, k + 1)

\* the loops of applyMapRelo over the records still to do: a symbol index
\* that getSymNameByIdx refuses makes the function return; a symbol that is
\* no map is passed over; else the first map of that name gives the descriptor
RECURSIVE applyRels(_, _, _, _)
applyRels(o, fds, data, todo) ==
    IF todo = << >> THEN data
    ELSE LET k == Head(todo).k
             rel == Head(todo).rel
             names == getSectionSymNames(o, "maps")
         IN  IF noSymAt(o, rel.r_sym) THEN data
             ELSE LET symName == getSymNameByIdx(o, rel.r_sym)
                      js == {j \in DOMAIN names : names[j] = symName}
                      j == CHOOSE j \in js : \A h \in js : j <= h
                  IN  applyRels(o, fds,
                                IF js = {} THEN data
                                ELSE [data EXCEPT ![k] = applyRelo(@, rel.r_offset, fds[j].num)],
                                Tail(todo))

\* applyMapRelo(elfFile, mapFds, cs): the instructions of all code sections
\* afterwards; nothing is done for an object without `maps` section
applyMapRelo(o, fds, data) ==
    IF o.maps = << >> THEN data
    ELSE applyRels(o, fds, data,
                   SelectSeq(relsFrom(o.cs, 1), LAMBDA e : e.k \in DOMAIN data))

-----------------------------------------------------------------------------
(* Pin paths.  A path is <<directory, kind prefix, rest>>; its string is the *)
(* concatenation of the three, and two paths are the same string iff they   *)
(* are the same triple (the directory ends in '/', the rest has no '/').     *)

mapPinLoc(m, mapName, prefix, objName) ==
    << BPF_FS_PATH \o lookupPinSubdir(getDomainFromPinSubdir(m.pin_subdir), prefix),
       "map_", (IF m.shared THEN "" ELSE objName) \o "_" \o mapName >>

mapCreateLoc(m, mapName, objName) ==
    << BPF_FS_PATH \o lookupPinSubdir(getDomainFromSelinuxContext(m.selinux_context), ""),
       "tmp_map_", objName \o "_" \o mapName >>

\* the code section's name with any $suffix stripped
\* faulty variant of progName: the $suffix is kept
progNameWithSuffix(c) == csName(c)

\* loadCodeSections: name.substr(0, name.find_last_of('$')) of the section
\* name whose slashes are already underscores
progName(c) ==
    Str(stripFromLast([i \in DOMAIN c.section |->
                          IF c.section[i] = "/" THEN "_" ELSE c.section[i]], "$"))

progPinLoc(c, prefix, objName) ==
    << BPF_FS_PATH \o lookupPinSubdir(getDomainFromPinSubdir(c.prog_def.pin_subdir), prefix),
       "prog_", objName \o "_" \o progName(c) >>

progCreateLoc(c, objName) ==
    << BPF_FS_PATH \o lookupPinSubdir(getDomainFromSelinuxContext(c.prog_def.selinux_context), ""),
       "tmp_prog_", objName \o "_" \o progName(c) >>

isFinalPath(p) == p[2] \in {"map_", "prog_"}
isTmpPath(p) == p[2] \in {"tmp_map_", "tmp_prog_"}

\* faulty variant of access: the pin path is never found
accessNever(p) == FALSE

\* faulty variant of access: only the pins of maps are found
accessOnlyMaps(p) == p \in DOMAIN fs /\ p[2] \in {"map_", "tmp_map_"}

\* access(path, F_OK) == 0
access(p) == p \in DOMAIN fs

\* the filesystem with entry e at path p (added or replaced)
fsWith(p, e) == [q \in DOMAIN fs \cup {p} |-> IF q = p THEN e ELSE fs[q]]

\* the filesystem without path p
fsWithout(p) == [q \in DOMAIN fs \ {p} |-> fs[q]]

\* bpfFdPin(fd, path): a new bpffs inode, mode 0600, owned by the caller (root);
\* `run` and `by` tell the inodes of one path apart
bpfFdPin(p, k, who, want) ==
    fsWith(p, [kobj |-> k, mode |-> 384, uid |-> 0, gid |-> 0,
               by |-> who, run |-> run, want |-> want, stage |-> "pinned"])

\* faulty variant of renameat2: the source path is left in place
renameat2KeepsSource(src, dst) == fsWith(dst, fs[src])

\* renameat2(src, dst, RENAME_NOREPLACE), dst known not to exist
renameat2(src, dst) ==
    [q \in (DOMAIN fs \ {src}) \cup {dst} |-> IF q = dst THEN fs[src] ELSE fs[q]]

chmod(p, mode) == fsWith(p, [fs[p] EXCEPT !.mode = mode, !.stage = "chmodded"])

\* faulty variant of chown: the group is left as it was
chownDropsGid(p, uid, gid) ==
    fsWith(p, [fs[p] EXCEPT !.uid = uid, !.stage = "chowned"])

chown(p, uid, gid) ==
    fsWith(p, [fs[p] EXCEPT !.uid = uid, !.gid = gid, !.stage = "chowned"])

\* the lowest descriptor number that table t does not use
lowestFree(t) == CHOOSE n \in 0..Cardinality(DOMAIN t) :
                     n \notin DOMAIN t /\ \A k \in 0..(n - 1) : k \in DOMAIN t

\* table t after a call that opens a descriptor for `what`
opened(t, what) == [n \in DOMAIN t \cup {lowestFree(t)} |-> IF n \in DOMAIN t THEN t[n] ELSE what]

\* table t after close() of the descriptors nums
closed(t, nums) == [n \in DOMAIN t \ nums |-> t[n]]

\* unique_fd(): no descriptor, get() is -1
NullFd == [ok |-> FALSE, reuse |-> FALSE, num |-> -1,
           kobj |-> [kind |-> "none", type |-> "", key_size |-> 0, value_size |-> 0,
                     max_entries |-> 0, map_flags |-> 0, insns |-> << >>]]

\* the unique_fd a successful bpf() call for kernel object k gives
OpenFd(k, reuse) == [ok |-> TRUE, reuse |-> reuse, num |-> lowestFree(openFds), kobj |-> k]

\* whether the environment may fail the next syscall
Outcomes == IF faultBudget > 0 THEN {TRUE, FALSE} ELSE {TRUE}

spend(ok) == IF ok THEN faultBudget ELSE faultBudget - 1

-----------------------------------------------------------------------------
(* The loader's control flow *)

CurObj == dirs[locIdx][objIdx]
CurMapKey == <<locIdx, objIdx, mapIdx>>
CurCsKey == <<locIdx, objIdx, csIdx>>
prefix == locations[locIdx]
objName == pathToObjName(CurObj.file)

\* loadProg: *isCritical, true iff the object has a `critical` section
isCritical(o) == o.critical

\* faulty variant of nextRetVal: a remembered error is not overwritten
nextRetValKeepsFirst(r) ==
    IF r # 0 /\ isCritical(CurObj) /\ retVal = 0 THEN r ELSE retVal

\* faulty variant of nextRetVal: the result of every critical object is
\* remembered, a later success clears the error
nextRetValOfLastCritical(r) == IF isCritical(CurObj) THEN r ELSE retVal

\* faulty variant of nextRetVal: the error of any object is remembered
nextRetValOfAny(r) == IF r # 0 THEN r ELSE retVal

\* loadAllElfObjects, after loadProg returned r: `if (ret) { if (critical) retVal = ret; }`
nextRetVal(r) == IF r # 0 /\ isCritical(CurObj) THEN r ELSE retVal

\* the numbers of the open descriptors among fds
numsOf(fds) == {f.num : f \in {g \in fds : g.ok}}

\* faulty variant of owned: the code sections do not own their prog_fd
ownedButProgFds ==
    {n \in DOMAIN openFds : openFds[n] = "elf"}
    \cup numsOf({mapFds[i] : i \in DOMAIN mapFds} \cup {fd})

\* the descriptors that loadProg's locals own: elfFile, mapFds, the prog_fd of
\* every code section and the unique_fd of the iteration in progress
owned ==
    {n \in DOMAIN openFds : openFds[n] = "elf"}
    \cup numsOf({mapFds[i] : i \in DOMAIN mapFds} \cup {progFds[i] : i \in DOMAIN progFds}
                \cup {fd})

\* no object has had its `progs` and `maps` read in this run
NoRecords == [of |-> <<0, 0>>, pd |-> << >>, maps |-> FALSE, md |-> << >>]

\* loadProg returns r to loadAllElfObjects; its locals go out of scope and
\* their destructors close what they own
ReturnFrom(site, r) ==
    /\ pc' = "loadAll"
    /\ retVal' = nextRetVal(r)
    /\ rets' = rets \cup {[loc |-> locIdx, obj |-> objIdx, ret |-> r, at |-> site,
                            map |-> mapIdx, cs |-> csIdx]}
    /\ openFds' = closed(openFds, owned)
    /\ mapFds' = << >>
    /\ progFds' = << >>
    /\ csData' = << >>
    /\ fd' = NullFd
    /\ mapIdx' = 0
    /\ csIdx' = 0

\* the same, the stage being the one loadProg is in
Return(r) == ReturnFrom(pc, r)

\* the process ends with status code
Exit(code) ==
    /\ pc' = "exited"
    /\ exitCode' = code

\* faulty variant of loaderVersion: T is the base version
loaderVersionFromT(e) ==
    42 + (IF e.api >= __ANDROID_API_U__ THEN 1 ELSE 0)
       + (IF e.root THEN 1 ELSE 0)
       + (IF e.api >= __ANDROID_API_V__ THEN 1 ELSE 0)

\* doLoad: bpfloader_ver from the api level and the uid
loaderVersion(e) ==
    42 + (IF e.api >= __ANDROID_API_T__ THEN 1 ELSE 0)
       + (IF e.api >= __ANDROID_API_U__ THEN 1 ELSE 0)
       + (IF e.root THEN 1 ELSE 0)
       + (IF e.api >= __ANDROID_API_V__ THEN 1 ELSE 0)

\* doLoad: REQUIRE(maj, min, sub), a maj.min kernel below maj.min.sub
REQUIRE(e, maj, min, sub) == e.kvers >= KVER(maj, min, 0) /\ e.kvers < KVER(maj, min, sub)

\* doLoad: `bad` after the REQUIRE lines; it is only logged (isLtsKernel(),
\* which also sets it, is left out)
bad(e) ==
    \/ REQUIRE(e, 4, 19, 236) \/ REQUIRE(e, 5, 4, 186) \/ REQUIRE(e, 5, 10, 199)
    \/ REQUIRE(e, 5, 15, 136) \/ REQUIRE(e, 6, 1, 57) \/ REQUIRE(e, 6, 6, 0)

\* faulty variant of envUnsupported: 32-bit userspace on a 6.2+ kernel passes
envUnsupportedButUserspace32(e) ==
    LET isAtLeastT == e.api >= __ANDROID_API_T__
        isAtLeastU == e.api >= __ANDROID_API_U__
        isAtLeastV == e.api >= __ANDROID_API_V__
    IN  \/ ~e.has_platform_bpfloader_rc /\ ~e.has_platform_netbpfload_rc
        \/ e.has_platform_bpfloader_rc /\ e.has_platform_netbpfload_rc
        \/ ~isAtLeastT
        \/ isAtLeastT /\ ~isAtLeastKernelVersion(4, 9, 0)
        \/ isAtLeastU /\ ~isAtLeastKernelVersion(4, 14, 0)
        \/ isAtLeastV /\ ~isAtLeastKernelVersion(4, 19, 0)
        \/ isAtLeastV /\ isKernel32Bit /\ isAtLeastKernelVersion(5, 16, 0) /\ ~e.isTV
        \/ isAtLeastV /\ isKernel32Bit /\ isX86 /\ ~e.isTV
        \/ ~isEng /\ ~isUser /\ ~isUserdebug

\* doLoad: the checks that make it return 1 before anything is loaded
envUnsupported(e) ==
    LET isAtLeastT == e.api >= __ANDROID_API_T__
        isAtLeastU == e.api >= __ANDROID_API_U__
        isAtLeastV == e.api >= __ANDROID_API_V__
    IN  \/ ~e.has_platform_bpfloader_rc /\ ~e.has_platform_netbpfload_rc
        \/ e.has_platform_bpfloader_rc /\ e.has_platform_netbpfload_rc
        \/ ~isAtLeastT
        \/ isAtLeastT /\ ~isAtLeastKernelVersion(4, 9, 0)
        \/ isAtLeastU /\ ~isAtLeastKernelVersion(4, 14, 0)
        \/ isAtLeastV /\ ~isAtLeastKernelVersion(4, 19, 0)
        \/ isAtLeastV /\ isKernel32Bit /\ isAtLeastKernelVersion(5, 16, 0) /\ ~e.isTV
        \/ isAtLeastV /\ isKernel32Bit /\ isX86 /\ ~e.isTV
        \/ e.userspace32 /\ isAtLeastKernelVersion(6, 2, 0)
              /\ ~e.isTV /\ ~(e.isWear /\ isArm)
        \/ ~isEng /\ ~isUser /\ ~isUserdebug

\* faulty variant of pinSubdirs: /sys/fs/bpf/loader is not made
pinSubdirsOfLocations == locations

\* doLoad: the directories it makes before it loads anything, in the order
\* of the calls of createSysFsBpfSubDir
pinSubdirs == locations \o <<"loader">>

\* doLoad: the directory it makes when all locations are done
mainline_done == "netd_shared/mainline_done"

\* doLoad up to the first loadAllElfObjects: environment checks, sysctl writes
\* and creation of the pin subdirectories (ok: these external calls succeed;
\* else one of them fails, after n directories when it is a mkdir)
DoLoad(ok) ==
    /\ pc = "doLoad"
    /\ bpfloader_ver' = loaderVersion(env)
    /\ faultBudget' = IF envUnsupported(env) THEN faultBudget ELSE spend(ok)
    /\ IF envUnsupported(env)
       THEN Exit(1) /\ UNCHANGED <<locIdx, objIdx, retVal, mkdirs>>
       ELSE IF ~ok
       THEN /\ Exit(1)
            /\ \E n \in 0..(Len(pinSubdirs) - 1) : mkdirs' = SubSeq(pinSubdirs, 1, n)
            /\ UNCHANGED <<locIdx, objIdx, retVal>>
       ELSE /\ pc' = "loadAll"
            /\ mkdirs' = pinSubdirs
            /\ locIdx' = 1
            /\ objIdx' = 0
            /\ retVal' = 0
            /\ UNCHANGED exitCode
    /\ openFds' = IF envUnsupported(env) \/ ~ok THEN openFds ELSE opened(openFds, "dir")
    /\ UNCHANGED <<env, dirs, run, mapIdx, mapFds, csIdx, fd, progFds, csData, fs, log,
                   rets, conflicts, snap, scalars, shReads, records, reqs, vlogs>>

\* loadAllElfObjects: readdir() returns the next .o file and loadProg is called
ReadDir ==
    /\ pc = "loadAll"
    /\ objIdx < Len(dirs[locIdx])
    /\ objIdx' = objIdx + 1
    /\ pc' = "loadProg"
    /\ UNCHANGED <<env, dirs, faultBudget, run, bpfloader_ver, locIdx, retVal, mapIdx,
                   mapFds, csIdx, fd, progFds, csData, openFds, fs, exitCode, log, rets,
                   conflicts, snap, scalars, shReads, mkdirs, records, reqs, vlogs>>

\* loadAllElfObjects returns retVal to doLoad's loop over locations: closedir,
\* and opendir of the next location if there is one
CloseDir ==
    /\ pc = "loadAll"
    /\ objIdx = Len(dirs[locIdx])
    /\ IF retVal # 0
       THEN Exit(2) /\ UNCHANGED <<locIdx, objIdx, retVal>>
       ELSE /\ UNCHANGED exitCode
            /\ retVal' = 0
            /\ objIdx' = 0
            /\ IF locIdx < Len(locations)
               THEN locIdx' = locIdx + 1 /\ pc' = "loadAll"
               ELSE locIdx' = locIdx /\ pc' = "finish"
    /\ openFds' = IF retVal = 0 /\ locIdx < Len(locations) THEN openFds
                  ELSE closed(openFds, {n \in DOMAIN openFds : openFds[n] = "dir"})
    /\ UNCHANGED <<env, dirs, faultBudget, run, bpfloader_ver, mapIdx, mapFds, csIdx,
                   fd, progFds, csData, fs, log, rets, conflicts, snap, scalars, shReads, mkdirs, records, reqs, vlogs>>

\* doLoad after the last location: the array-map self test and the
\* netd_shared/mainline_done flag (ok: both succeed), then exit or execve
Finish(ok) ==
    /\ pc = "finish"
    /\ faultBudget' = spend(ok)
    /\ Exit(IF ~ok THEN 1 ELSE IF ~env.root THEN 0 ELSE EXIT_EXECVE)
    /\ mkdirs' = IF ok THEN Append(mkdirs, mainline_done) ELSE mkdirs
    /\ UNCHANGED <<env, dirs, run, bpfloader_ver, locIdx, objIdx, retVal, mapIdx,
                   mapFds, csIdx, fd, progFds, csData, openFds, fs, log, rets, conflicts,
                   snap, scalars, shReads, records, reqs, vlogs>>

\* loadProg(elfPath, &critical, bpfloader_ver, location) up to createMaps: the
\* tests that make it return before createMaps, in the order of the code
\* faulty variant of loadProgReturnsEarly: bpfloader_min_required_ver is not tested
loadProgReturnsEarlyNoRequired(o) ==
    \/ ~o.license
    \/ bpfloader_ver < bpfLoaderMinVer(o)
    \/ bpfloader_ver >= bpfLoaderMaxVer(o)
    \/ sizeOfBpfMapDef(o) < DEFAULT_SIZEOF_BPF_MAP_DEF
    \/ sizeOfBpfProgDef(o) < DEFAULT_SIZEOF_BPF_PROG_DEF
    \/ ~o.progs

\* the loop of readCodeSections from program section i of object o on, acc
\* being the sections pushed so far.  o.cs holds the sections of the ELF
\* whose name has a program-type prefix, in section-header order; a section
\* is named here by its place in o.cs, so that the i-th element of the
\* vector the code builds is section acc[i].  A section without function
\* symbol ends the function with `return ret`, ret being 0; a section
\* without data is not pushed.  For a section with data the header after it
\* is read, `if (cs_temp.data.size() > 0 && i < entries)` being no bound on
\* i + 1: for the last section of the table (probed) that read is past the
\* end of shTable and its outcome u is one of PastTheEnd
RECURSIVE codeSectionsFrom(_, _, _, _, _)
codeSectionsFrom(o, i, acc, probed, u) ==
    IF i > Len(o.cs) THEN [ret |-> 0, cs |-> acc, probed |-> probed]
    ELSE IF o.cs[i].funcs = << >> THEN [ret |-> 0, cs |-> acc, probed |-> probed]
    ELSE IF o.cs[i].data = << >> THEN codeSectionsFrom(o, i + 1, acc, probed, u)
    ELSE IF o.cs[i].last /\ u # "no .rel name"
    THEN [ret |-> -1, cs |-> acc, probed |-> probed \cup {i}]
    ELSE codeSectionsFrom(o, i + 1, Append(acc, i), probed \cup {i}, u)

\* what the read of shTable[entries] can lead to: bytes that getSymName
\* turns into a name other than ".rel" + the section name, bytes that
\* getSymName refuses as an offset, or the end of the process
PastTheEnd == {"no .rel name", "getSymName fails", "killed"}

\* readCodeSections(elfFile, cs): its return value, the vector cs and the
\* sections whose following header it read
readCodeSections(o, u) == codeSectionsFrom(o, 1, << >>, {}, u)

\* the sections of o that readCodeSections has put into cs
sectionsRead(o, u) ==
    {readCodeSections(o, u).cs[n] : n \in DOMAIN readCodeSections(o, u).cs}

\* the section that follows section i in the vector cs (whose sections are
\* those csData has the instructions of); past the last section when there
\* is none
sectionAfter(o, i) ==
    IF \E k \in DOMAIN csData : k > i
    THEN CHOOSE k \in DOMAIN csData : k > i /\ \A h \in DOMAIN csData : h > i => k <= h
    ELSE Len(o.cs) + 1

\* faulty variant of loadProgReturnsEarly: the upper bound is inclusive
loadProgReturnsEarlyMaxInclusive(o) ==
    \/ ~o.license
    \/ bpfloader_ver < bpfLoaderMinVer(o)
    \/ bpfloader_ver > bpfLoaderMaxVer(o)
    \/ bpfloader_ver < bpfLoaderMinRequiredVer(o)
    \/ sizeOfBpfMapDef(o) < DEFAULT_SIZEOF_BPF_MAP_DEF
    \/ sizeOfBpfProgDef(o) < DEFAULT_SIZEOF_BPF_PROG_DEF
    \/ ~o.progs

\* faulty variant of loadProgReturnsEarly: an absent `progs` section is none
\* of the reasons
loadProgReturnsEarlyButNoProgs(o) ==
    \/ ~o.license
    \/ bpfloader_ver < bpfLoaderMinVer(o)
    \/ bpfloader_ver >= bpfLoaderMaxVer(o)
    \/ bpfloader_ver < bpfLoaderMinRequiredVer(o)
    \/ sizeOfBpfMapDef(o) < DEFAULT_SIZEOF_BPF_MAP_DEF
    \/ sizeOfBpfProgDef(o) < DEFAULT_SIZEOF_BPF_PROG_DEF

loadProgReturnsEarly(o) ==
    \/ ~o.license
    \/ bpfloader_ver < bpfLoaderMinVer(o)
    \/ bpfloader_ver >= bpfLoaderMaxVer(o)
    \/ bpfloader_ver < bpfLoaderMinRequiredVer(o)
    \/ sizeOfBpfMapDef(o) < DEFAULT_SIZEOF_BPF_MAP_DEF
    \/ sizeOfBpfProgDef(o) < DEFAULT_SIZEOF_BPF_PROG_DEF
    \/ ~o.progs

\* faulty variant of loadProgEarlyRet: an unmet required version is a skip
loadProgEarlyRetSkipsRequired(o) ==
    IF ~o.license THEN -2
    ELSE IF bpfloader_ver < bpfLoaderMinVer(o) THEN 0
    ELSE IF bpfloader_ver >= bpfLoaderMaxVer(o) THEN 0
    ELSE IF bpfloader_ver < bpfLoaderMinRequiredVer(o) THEN 0
    ELSE IF sizeOfBpfMapDef(o) < DEFAULT_SIZEOF_BPF_MAP_DEF THEN -1
    ELSE IF sizeOfBpfProgDef(o) < DEFAULT_SIZEOF_BPF_PROG_DEF THEN -1
    ELSE -2

\* the value of that early return
loadProgEarlyRet(o) ==
    IF ~o.license THEN -2
    ELSE IF bpfloader_ver < bpfLoaderMinVer(o) THEN 0
    ELSE IF bpfloader_ver >= bpfLoaderMaxVer(o) THEN 0
    ELSE IF bpfloader_ver < bpfLoaderMinRequiredVer(o) THEN -1
    ELSE IF sizeOfBpfMapDef(o) < DEFAULT_SIZEOF_BPF_MAP_DEF THEN -1
    ELSE IF sizeOfBpfProgDef(o) < DEFAULT_SIZEOF_BPF_PROG_DEF THEN -1
    ELSE -2

\* the length of the `progs` and of the `maps` section of object o: one
\* record of the advertised size for every ProgDef and MapDef, and the bytes
\* after them
progsSize(o) ==
    Cardinality({k \in DOMAIN o.cs : o.cs[k].has_def}) * sizeOfBpfProgDef(o) + o.progs_extra
mapsSize(o) == Len(o.maps) * sizeOfBpfMapDef(o) + o.maps_extra

\* readProgDefs: `if (pdData.size() % sizeOfBpfProgDef)`
improperProgs(o) == progsSize(o) % sizeOfBpfProgDef(o) # 0

\* faulty variant of improperMaps: the whole records are taken and the bytes
\* after them ignored
improperMapsIgnored(o) == FALSE

\* createMaps: `if (mdData.size() % sizeOfBpfMapDef)`, for an object with a
\* `maps` section
improperMaps(o) == mapsSize(o) > 0 /\ mapsSize(o) % sizeOfBpfMapDef(o) # 0

\* mem with the unsigned int v stored at byte offset off (little endian);
\* byte k of the code is mem[k + 1] here
store32(mem, off, v) ==
    [b \in DOMAIN mem |->
        IF b - 1 \in off..(off + 3) THEN (v \div 256 ^ (b - 1 - off)) % 256 ELSE mem[b]]

\* memset(&p, 0, sizeof(p)) and the non-zero defaults of a bpf_prog_def and
\* of a bpf_map_def (0xFFFFFFFF is stored byte by byte, as it exceeds what
\* the integers here hold)
zeroed(size) == [b \in 1..size |-> 0]
seededProgDef(abi) ==
    store32(zeroed(abi.sizeof_bpf_prog_def), abi.prog_bpfloader_max_ver,
            DEFAULT_BPFLOADER_MAX_VER)
seededMapDef(abi) ==
    [b \in 1..abi.sizeof_bpf_map_def |->
        IF b - 1 \in abi.map_max_kver..(abi.map_max_kver + 3) THEN 255
        ELSE store32(zeroed(abi.sizeof_bpf_map_def), abi.map_bpfloader_max_ver,
                     DEFAULT_BPFLOADER_MAX_VER)[b]]

\* faulty variant of copyRecords: the cursor moves by what was copied
RECURSIVE copyRecordsBackToBack(_, _, _, _, _)
copyRecordsBackToBack(data, dataPtr, n, seeded, size) ==
    IF n = 0 THEN << >>
    ELSE LET trimmedSize == IF size < Len(seeded) THEN size ELSE Len(seeded)
         IN  << [b \in DOMAIN seeded |->
                    IF b <= trimmedSize THEN data[dataPtr + b] ELSE seeded[b]] >>
             \o copyRecordsBackToBack(data, dataPtr + trimmedSize, n - 1, seeded, size)

\* the loop `for (auto& p : pd)` of readProgDefs and `for (auto& m : md)` of
\* createMaps over the n records still to fill: memset and defaults (seeded),
\* memcpy of trimmedSize bytes from dataPtr, dataPtr += size
RECURSIVE copyRecords(_, _, _, _, _)
copyRecords(data, dataPtr, n, seeded, size) ==
    IF n = 0 THEN << >>
    ELSE LET trimmedSize == IF size < Len(seeded) THEN size ELSE Len(seeded)
         IN  << [b \in DOMAIN seeded |->
                    IF b <= trimmedSize THEN data[dataPtr + b] ELSE seeded[b]] >>
             \o copyRecords(data, dataPtr + size, n - 1, seeded, size)

\* readProgDefs / the head of createMaps: the vector of records made of the
\* bytes data of the section, size being the advertised record size
readDefs(data, seeded, size) == copyRecords(data, 0, Len(data) \div size, seeded, size)

\* loadProg: the locals that hold the five scalars of object o (`of` says
\* which object they were read from)
readScalars(o) ==
    [of |-> <<locIdx, objIdx>>,
     bpfLoaderMinVer |-> bpfLoaderMinVer(o),
     bpfLoaderMaxVer |-> bpfLoaderMaxVer(o),
     bpfLoaderMinRequiredVer |-> bpfLoaderMinRequiredVer(o),
     sizeOfBpfMapDef |-> sizeOfBpfMapDef(o),
     sizeOfBpfProgDef |-> sizeOfBpfProgDef(o)]

\* (u: what a read past the end of the section header table leads to)
LoadProg(u) ==
    /\ pc = "loadProg"
    /\ LET r == readCodeSections(CurObj, u)
           pastEnd == {i \in r.probed : CurObj.cs[i].last}
           decoded == [of |-> <<locIdx, objIdx>>,
                       pd |-> readDefs(CurObj.raw.progs, seededProgDef(env.abi),
                                       sizeOfBpfProgDef(CurObj)),
                       maps |-> r.ret = 0 /\ ~improperMaps(CurObj),
                       md |-> IF r.ret # 0 \/ improperMaps(CurObj) THEN << >>
                              ELSE readDefs(CurObj.raw.maps, seededMapDef(env.abi),
                                            sizeOfBpfMapDef(CurObj))]
       IN  IF loadProgReturnsEarly(CurObj)
           THEN Return(loadProgEarlyRet(CurObj)) /\ UNCHANGED <<shReads, exitCode, records>>
           ELSE IF improperProgs(CurObj)
           THEN ReturnFrom("readCodeSections", -1) /\ UNCHANGED <<shReads, exitCode, records>>
           ELSE /\ records' = IF pastEnd # {} /\ u = "killed" THEN records ELSE decoded
                /\ shReads' = shReads \cup
                                 {[loc |-> locIdx, obj |-> objIdx, after |-> i,
                                   inTable |-> ~CurObj.cs[i].last] : i \in r.probed}
                /\ IF pastEnd # {} /\ u = "killed"
                   THEN /\ Exit(EXIT_KILLED)
                        /\ UNCHANGED <<retVal, rets, fd, csIdx, progFds, openFds, csData,
                                       mapIdx, mapFds>>
                   ELSE IF r.ret # 0
                   THEN ReturnFrom("readCodeSections", r.ret) /\ UNCHANGED exitCode
                   ELSE IF improperMaps(CurObj)
                   THEN ReturnFrom("createMaps", -1) /\ UNCHANGED exitCode
                   ELSE /\ pc' = "createMaps"
                        /\ openFds' = opened(openFds, "elf")
                        /\ csData' = [i \in sectionsRead(CurObj, u) |-> CurObj.cs[i].data]
                        /\ mapIdx' = 1
                        /\ mapFds' = << >>
                        /\ UNCHANGED <<retVal, rets, fd, csIdx, progFds, exitCode>>
    /\ scalars' = IF CurObj.license THEN readScalars(CurObj) ELSE scalars
    /\ UNCHANGED <<env, dirs, faultBudget, run, bpfloader_ver, locIdx, objIdx, fs,
                   log, conflicts, snap, mkdirs, reqs, vlogs>>

-----------------------------------------------------------------------------
(* createMaps *)

md == CurObj.maps
\* createMaps: mapNames, the symbols of the `maps` section
mapNames == getSectionSymNames(CurObj, "maps")
CurMap == md[mapIdx]
CurMapPinLoc == mapPinLoc(CurMap, mapNames[mapIdx], prefix, objName)
CurMapCreateLoc == mapCreateLoc(CurMap, mapNames[mapIdx], objName)
mapWant(m) == <<m.mode, m.uid, m.gid>>

logged(op, i, ok) == [op |-> op, loc |-> locIdx, obj |-> objIdx, idx |-> i, ok |-> ok]

\* createMaps pushes descriptor f for map i and goes on to map i + 1
PushMapFd(f) ==
    /\ mapFds' = Append(mapFds, f)
    /\ mapIdx' = mapIdx + 1
    /\ fd' = NullFd
    /\ pc' = "createMaps"
    /\ UNCHANGED <<csIdx, progFds, csData>>

\* one iteration of the createMaps loop up to the first pin call: reserved
\* byte, gating, token decoding, reuse or BPF_MAP_CREATE, equivalence check
\* (ok: mapRetrieveRO / BPF_MAP_CREATE gives a descriptor)
CreateMap(ok) ==
    /\ pc = "createMaps"
    /\ mapIdx <= Len(mapNames)
    /\ LET m == CurMap
           type == effectiveType(m)
           reuse == access(CurMapPinLoc)
           k == IF reuse THEN fs[CurMapPinLoc].kobj ELSE bpfMapCreate(m, type)
           called == ~mapSkipped(m) /\ ~unrecognized(getDomainFromPinSubdir(m.pin_subdir))
       IN  /\ faultBudget' = IF m.zero = 0 /\ called THEN spend(ok) ELSE faultBudget
           /\ log' = IF m.zero = 0 /\ called /\ ~reuse
                     THEN log \cup {logged("BPF_MAP_CREATE", mapIdx, ok)} ELSE log
           /\ reqs' = IF m.zero = 0 /\ called /\ ~reuse
                      THEN reqs \cup {[loc |-> locIdx, obj |-> objIdx, idx |-> mapIdx,
                                        req |-> mapCreateReq(m, type)]}
                      ELSE reqs
           /\ conflicts' = IF m.zero = 0 /\ called /\ reuse /\ ok
                              /\ k # bpfMapCreate(m, type)
                           THEN conflicts \cup {[loc |-> locIdx, obj |-> objIdx,
                                                 idx |-> mapIdx, path |-> CurMapPinLoc,
                                                 pin |-> fs[CurMapPinLoc]]}
                           ELSE conflicts
           /\ IF m.zero # 0
              THEN Exit(EXIT_ABORT)
                   /\ UNCHANGED <<retVal, rets, mapFds, fd, mapIdx, csIdx, progFds, csData,
                                  openFds>>
              ELSE IF mapSkipped(m)
              THEN PushMapFd(NullFd) /\ UNCHANGED <<retVal, rets, exitCode, openFds>>
              ELSE IF unrecognized(getDomainFromPinSubdir(m.pin_subdir))
              THEN Return(-ENOTDIR) /\ UNCHANGED exitCode
              ELSE IF ~ok
              THEN Return(-EIO) /\ UNCHANGED exitCode
              ELSE IF ~mapMatchesExpectations(k, m, type)
              THEN Return(-ENOTUNIQ) /\ UNCHANGED exitCode
              ELSE IF reuse
              THEN /\ PushMapFd(OpenFd(k, TRUE))
                   /\ openFds' = opened(openFds, "map")
                   /\ UNCHANGED <<retVal, rets, exitCode>>
              ELSE /\ fd' = OpenFd(k, FALSE)
                   /\ openFds' = opened(openFds, "map")
                   /\ pc' = "map_pin"
                   /\ UNCHANGED <<retVal, rets, mapFds, mapIdx, csIdx, progFds, csData,
                                  exitCode>>
    /\ UNCHANGED <<env, dirs, run, bpfloader_ver, locIdx, objIdx, fs, snap, scalars, shReads,
                   mkdirs, records, vlogs>>

\* createMaps, fresh map: bpfFdPin at the tmp_map_ path when a selinux_context
\* is specified, else directly at the final path
MapPin(ok) ==
    /\ pc = "map_pin"
    /\ LET m == CurMap
           viaTmp == specified(getDomainFromSelinuxContext(m.selinux_context))
           p == IF viaTmp THEN CurMapCreateLoc ELSE CurMapPinLoc
           done == ok /\ ~access(p)
       IN  /\ faultBudget' = spend(ok)
           /\ IF done
              THEN /\ fs' = bpfFdPin(p, fd.kobj, CurMapKey, mapWant(m))
                   /\ pc' = IF viaTmp THEN "map_rename" ELSE "map_chmod"
                   /\ UNCHANGED <<retVal, rets, mapFds, fd, mapIdx, csIdx, progFds, csData,
                                  openFds>>
              ELSE Return(IF access(p) THEN -EEXIST ELSE -EIO) /\ UNCHANGED fs
    /\ UNCHANGED <<env, dirs, run, bpfloader_ver, locIdx, objIdx, exitCode, log,
                   conflicts, snap, scalars, shReads, mkdirs, records, reqs, vlogs>>

\* createMaps: renameat2(createLoc, mapPinLoc, RENAME_NOREPLACE)
MapRename(ok) ==
    /\ pc = "map_rename"
    /\ LET done == ok /\ ~access(CurMapPinLoc)
       IN  /\ faultBudget' = spend(ok)
           /\ IF done
              THEN /\ fs' = renameat2(CurMapCreateLoc, CurMapPinLoc)
                   /\ pc' = "map_chmod"
                   /\ UNCHANGED <<retVal, rets, mapFds, fd, mapIdx, csIdx, progFds, csData,
                                  openFds>>
              ELSE Return(IF access(CurMapPinLoc) THEN -EEXIST ELSE -EIO) /\ UNCHANGED fs
    /\ UNCHANGED <<env, dirs, run, bpfloader_ver, locIdx, objIdx, exitCode, log,
                   conflicts, snap, scalars, shReads, mkdirs, records, reqs, vlogs>>

\* createMaps: chmod(mapPinLoc, md[i].mode)
MapChmod(ok) ==
    /\ pc = "map_chmod"
    /\ faultBudget' = spend(ok)
    /\ IF ok
       THEN /\ fs' = chmod(CurMapPinLoc, CurMap.mode)
            /\ pc' = "map_chown"
            /\ UNCHANGED <<retVal, rets, mapFds, fd, mapIdx, csIdx, progFds, csData,
                           openFds>>
       ELSE Return(-EIO) /\ UNCHANGED fs
    /\ UNCHANGED <<env, dirs, run, bpfloader_ver, locIdx, objIdx, exitCode, log,
                   conflicts, snap, scalars, shReads, mkdirs, records, reqs, vlogs>>

\* createMaps: chown(mapPinLoc, md[i].uid, md[i].gid), then the descriptor
\* joins mapFds
MapChown(ok) ==
    /\ pc = "map_chown"
    /\ faultBudget' = spend(ok)
    /\ IF ok
       THEN /\ fs' = chown(CurMapPinLoc, CurMap.uid, CurMap.gid)
            /\ PushMapFd(fd)
            /\ UNCHANGED <<retVal, rets, openFds>>
       ELSE Return(-EIO) /\ UNCHANGED fs
    /\ UNCHANGED <<env, dirs, run, bpfloader_ver, locIdx, objIdx, exitCode, log,
                   conflicts, snap, scalars, shReads, mkdirs, records, reqs, vlogs>>

\* loadProg: createMaps returned 0; relocations are applied and
\* loadCodeSections starts (it fails at once when the kernel version is unknown)
CreateMapsDone ==
    /\ pc = "createMaps"
    /\ mapIdx > Len(mapNames)
    /\ IF kernelVersion = 0
       THEN Return(-EINVAL)
       ELSE /\ pc' = "loadCodeSections"
            /\ csData' = applyMapRelo(CurObj, mapFds, csData)
            /\ csIdx' = sectionAfter(CurObj, 0)
            /\ UNCHANGED <<retVal, rets, mapFds, fd, mapIdx, progFds, openFds>>
    /\ UNCHANGED <<env, dirs, faultBudget, run, bpfloader_ver, locIdx, objIdx, fs,
                   exitCode, log, conflicts, snap, scalars, shReads, mkdirs, records, reqs, vlogs>>

-----------------------------------------------------------------------------
(* loadCodeSections *)

cs == CurObj.cs
CurCs == cs[csIdx]
CurProgPinLoc == progPinLoc(CurCs, prefix, objName)
CurProgCreateLoc == progCreateLoc(CurCs, objName)
progWant(c) == <<PROG_MODE, c.prog_def.uid, c.prog_def.gid>>

\* faulty variant of missingProgDef: the gates are applied first
missingProgDefUnlessGated(c) == ~c.has_def /\ ~progSkipped(c.prog_def)

\* loadCodeSections: `if (!cs[i].prog_def.has_value())`
missingProgDef(c) == ~c.has_def

\* faulty variant of continueOnFailure: every failed load is skipped over
continueOnAnyFailure(c) == TRUE

\* loadCodeSections, BPF_PROG_LOAD failed: `if (cs[i].prog_def->optional) continue;`
continueOnFailure(c) == c.prog_def.optional

\* faulty variant of dumpsLogBuf: the log of an optional program is not
\* written
dumpsLogBufUnlessOptional(c, reuse, loaded) == ~reuse /\ ~loaded /\ ~c.prog_def.optional

\* loadCodeSections: the lines of log_buf are written to the log, which is
\* in the branch that calls BPF_PROG_LOAD, under `if (!fd.ok())` and before
\* prog_def->optional is looked at
dumpsLogBuf(c, reuse, loaded) == ~reuse /\ ~loaded

\* loadCodeSections goes on to code section i + 1, cs[i].prog_fd being f
NextCs(f) ==
    /\ progFds' = Append(progFds, f)
    /\ csIdx' = sectionAfter(CurObj, csIdx)
    /\ fd' = NullFd
    /\ pc' = "loadCodeSections"
    /\ UNCHANGED <<mapFds, mapIdx, csData>>

\* one iteration of the loadCodeSections loop up to the first pin call:
\* missing ProgDef, gating, pin_subdir, reuse or BPF_PROG_LOAD
\* (ok: retrieveProgram succeeds / BPF_PROG_LOAD is not failed by the kernel
\* for a reason other than the verifier's verdict)
LoadCodeSection(ok) ==
    /\ pc = "loadCodeSections"
    /\ csIdx <= Len(cs)
    /\ LET c == CurCs
           skipped == ~missingProgDef(c) /\ progSkipped(c.prog_def)
           called == /\ ~missingProgDef(c)
                     /\ ~skipped
                     /\ ~unrecognized(getDomainFromPinSubdir(c.prog_def.pin_subdir))
           reuse == called /\ access(CurProgPinLoc)
           loaded == ok /\ c.verifier_ok
       IN  /\ faultBudget' = IF called THEN spend(ok) ELSE faultBudget
           /\ log' = IF called /\ ~reuse
                     THEN log \cup {logged("BPF_PROG_LOAD", csIdx, loaded)} ELSE log
           /\ vlogs' = IF called /\ dumpsLogBuf(c, reuse, loaded)
                       THEN vlogs \cup {[loc |-> locIdx, obj |-> objIdx, idx |-> csIdx]}
                       ELSE vlogs
           /\ IF missingProgDef(c)
              THEN Return(-EINVAL)
              ELSE IF skipped
              THEN NextCs(NullFd) /\ UNCHANGED <<retVal, rets, openFds>>
              ELSE IF unrecognized(getDomainFromPinSubdir(c.prog_def.pin_subdir))
              THEN Return(-ENOTDIR)
              ELSE IF reuse
              THEN IF ok
                   THEN /\ NextCs(OpenFd(fs[CurProgPinLoc].kobj, TRUE))
                        /\ openFds' = opened(openFds, "prog")
                        /\ UNCHANGED <<retVal, rets>>
                   ELSE Return(-1)
              ELSE IF loaded
              THEN /\ fd' = OpenFd(bpfProgLoad(c, csData[csIdx]), FALSE)
                   /\ openFds' = opened(openFds, "prog")
                   /\ pc' = "prog_pin"
                   /\ UNCHANGED <<retVal, rets, mapFds, mapIdx, csIdx, progFds, csData>>
              ELSE IF continueOnFailure(c)
              THEN NextCs(NullFd) /\ UNCHANGED <<retVal, rets, openFds>>
              ELSE Return(-1)
    /\ UNCHANGED <<env, dirs, run, bpfloader_ver, locIdx, objIdx, fs, exitCode,
                   conflicts, snap, scalars, shReads, mkdirs, records, reqs>>

\* loadCodeSections, fresh program: bpfFdPin at the tmp_prog_ path when a
\* selinux_context is specified, else directly at the final path
ProgPin(ok) ==
    /\ pc = "prog_pin"
    /\ LET c == CurCs
           viaTmp == specified(getDomainFromSelinuxContext(c.prog_def.selinux_context))
           p == IF viaTmp THEN CurProgCreateLoc ELSE CurProgPinLoc
           done == ok /\ ~access(p)
       IN  /\ faultBudget' = spend(ok)
           /\ IF done
              THEN /\ fs' = bpfFdPin(p, fd.kobj, CurCsKey, progWant(c))
                   /\ pc' = IF viaTmp THEN "prog_rename" ELSE "prog_chmod"
                   /\ UNCHANGED <<retVal, rets, mapFds, fd, mapIdx, csIdx, progFds, csData,
                                  openFds>>
              ELSE Return(IF access(p) THEN -EEXIST ELSE -EIO) /\ UNCHANGED fs
    /\ UNCHANGED <<env, dirs, run, bpfloader_ver, locIdx, objIdx, exitCode, log,
                   conflicts, snap, scalars, shReads, mkdirs, records, reqs, vlogs>>

\* loadCodeSections: renameat2(createLoc, progPinLoc, RENAME_NOREPLACE)
ProgRename(ok) ==
    /\ pc = "prog_rename"
    /\ LET done == ok /\ ~access(CurProgPinLoc)
       IN  /\ faultBudget' = spend(ok)
           /\ IF done
              THEN /\ fs' = renameat2(CurProgCreateLoc, CurProgPinLoc)
                   /\ pc' = "prog_chmod"
                   /\ UNCHANGED <<retVal, rets, mapFds, fd, mapIdx, csIdx, progFds, csData,
                                  openFds>>
              ELSE Return(IF access(CurProgPinLoc) THEN -EEXIST ELSE -EIO)
                   /\ UNCHANGED fs
    /\ UNCHANGED <<env, dirs, run, bpfloader_ver, locIdx, objIdx, exitCode, log,
                   conflicts, snap, scalars, shReads, mkdirs, records, reqs, vlogs>>

\* loadCodeSections: chmod(progPinLoc, 0440)
ProgChmod(ok) ==
    /\ pc = "prog_chmod"
    /\ faultBudget' = spend(ok)
    /\ IF ok
       THEN /\ fs' = chmod(CurProgPinLoc, PROG_MODE)
            /\ pc' = "prog_chown"
            /\ UNCHANGED <<retVal, rets, mapFds, fd, mapIdx, csIdx, progFds, csData,
                           openFds>>
       ELSE Return(-EIO) /\ UNCHANGED fs
    /\ UNCHANGED <<env, dirs, run, bpfloader_ver, locIdx, objIdx, exitCode, log,
                   conflicts, snap, scalars, shReads, mkdirs, records, reqs, vlogs>>

\* loadCodeSections: chown(progPinLoc, prog_def->uid, prog_def->gid)
ProgChown(ok) ==
    /\ pc = "prog_chown"
    /\ faultBudget' = spend(ok)
    /\ IF ok
       THEN /\ fs' = chown(CurProgPinLoc, CurCs.prog_def.uid, CurCs.prog_def.gid)
            /\ NextCs(fd)
            /\ UNCHANGED <<retVal, rets, openFds>>
       ELSE Return(-EIO) /\ UNCHANGED fs
    /\ UNCHANGED <<env, dirs, run, bpfloader_ver, locIdx, objIdx, exitCode, log,
                   conflicts, snap, scalars, shReads, mkdirs, records, reqs, vlogs>>

\* loadCodeSections returns 0 after the last code section, and so does loadProg
LoadCodeSectionsDone ==
    /\ pc = "loadCodeSections"
    /\ csIdx > Len(cs)
    /\ Return(0)
    /\ UNCHANGED <<env, dirs, faultBudget, run, bpfloader_ver, locIdx, objIdx, fs,
                   exitCode, log, conflicts, snap, scalars, shReads, mkdirs, records, reqs, vlogs>>

\* the loader is started again on the same ELF set, environment and bpf
\* filesystem
Rerun ==
    /\ pc = "exited"
    /\ run < MaxRuns
    /\ run' = run + 1
    /\ pc' = "doLoad"
    /\ exitCode' = NoExit
    /\ snap' = [paths |-> DOMAIN fs,
                clean |-> /\ \A r \in rets : r.ret = 0
                          /\ \A e \in log : e.ok
                          /\ exitCode \in {0, EXIT_EXECVE}]
    /\ log' = {}
    /\ rets' = {}
    /\ conflicts' = {}
    /\ locIdx' = 0
    /\ objIdx' = 0
    /\ retVal' = 0
    /\ mapIdx' = 0
    /\ csIdx' = 0
    /\ mapFds' = << >>
    /\ fd' = NullFd
    /\ progFds' = << >>
    /\ csData' = << >>
    /\ openFds' = [n \in 0..2 |-> "stdio"]
    /\ scalars' = << >>
    /\ shReads' = {}
    /\ mkdirs' = << >>
    /\ records' = NoRecords
    /\ reqs' = {}
    /\ vlogs' = {}
    /\ UNCHANGED <<env, dirs, faultBudget, bpfloader_ver, fs>>

-----------------------------------------------------------------------------
(* The inputs: environments and ELF sets *)

NoIgnore(d) ==
    /\ ~d.ignore_on_eng /\ ~d.ignore_on_user /\ ~d.ignore_on_userdebug
    /\ ~d.ignore_on_arm32 /\ ~d.ignore_on_aarch64 /\ ~d.ignore_on_x86_32
    /\ ~d.ignore_on_x86_64 /\ ~d.ignore_on_riscv64

\* a shared hash map, key 4, value 8, 16 entries, mode 0660, gid 3005
BaseMap ==
    [type |-> "HASH", key_size |-> 4, value_size |-> 8,
     max_entries |-> 16, map_flags |-> 0, zero |-> 0, uid |-> 0, gid |-> 3005,
     mode |-> 432, bpfloader_min_ver |-> DEFAULT_BPFLOADER_MIN_VER,
     bpfloader_max_ver |-> DEFAULT_BPFLOADER_MAX_VER, min_kver |-> 0,
     max_kver |-> KVER_INF, selinux_context |-> "", pin_subdir |-> "",
     shared |-> TRUE, ignore_on_eng |-> FALSE, ignore_on_user |-> FALSE,
     ignore_on_userdebug |-> FALSE, ignore_on_arm32 |-> FALSE,
     ignore_on_aarch64 |-> FALSE, ignore_on_x86_32 |-> FALSE,
     ignore_on_x86_64 |-> FALSE, ignore_on_riscv64 |-> FALSE]

BaseProgDef ==
    [uid |-> 0, gid |-> 3005, min_kver |-> 0, max_kver |-> KVER_INF,
     optional |-> FALSE, bpfloader_min_ver |-> DEFAULT_BPFLOADER_MIN_VER,
     bpfloader_max_ver |-> DEFAULT_BPFLOADER_MAX_VER, selinux_context |-> "",
     pin_subdir |-> "", ignore_on_eng |-> FALSE, ignore_on_user |-> FALSE,
     ignore_on_userdebug |-> FALSE, ignore_on_arm32 |-> FALSE,
     ignore_on_aarch64 |-> FALSE, ignore_on_x86_32 |-> FALSE,
     ignore_on_x86_64 |-> FALSE, ignore_on_riscv64 |-> FALSE]

\* an instruction with opcode code, imm and src_reg zero
Insn(code) == [code |-> code, imm |-> 0, src_reg |-> 0]

\* a code section "schedcls/ingress_foo" that the verifier accepts:
\* r0 = 0; exit.  funcs are the STT_FUNC symbols of the section; last says
\* that its header is the last one of the section header table; rel_extra
\* are the bytes that its .rel section has after the last whole record
BaseCs ==
    [section |-> <<"schedcls", "/", "ingress_foo">>, has_def |-> TRUE, verifier_ok |-> TRUE,
     prog_def |-> BaseProgDef, funcs |-> <<"ingress_foo">>, last |-> FALSE,
     data |-> <<Insn(183), Insn(149)>>, rel_data |-> << >>, rel_extra |-> 0]

\* a section that the object does not have, and one holding the given bytes
NoSection == [present |-> FALSE, bytes |-> << >>]
Section(bytes) == [present |-> TRUE, bytes |-> bytes]

\* the section a compiler emits for the unsigned int v
UintSection(v) ==
    Section(<<v % 256, (v \div 256) % 256, (v \div 65536) % 256, (v \div 16777216) % 256>>)

\* scenario 1: license, no `critical`, one ingress program, no maps; the
\* scalar sections are absent (bpfloader V0.0 format).  maps_extra and
\* progs_extra are the bytes that `maps` and `progs` have after their last
\* whole record; raw holds the bytes of the two sections where an object
\* gives them
BaseObj ==
    [file |-> <<".", "o">>, critical |-> FALSE, license |-> TRUE,
     bpfloader_min_ver |-> NoSection, bpfloader_max_ver |-> NoSection,
     bpfloader_min_required_ver |-> NoSection,
     size_of_bpf_map_def |-> NoSection, size_of_bpf_prog_def |-> NoSection,
     progs |-> TRUE, maps |-> << >>, symtab |-> << >>, cs |-> <<BaseCs>>,
     maps_extra |-> 0, progs_extra |-> 0, raw |-> [maps |-> << >>, progs |-> << >>]]

\* the symbols of a `maps` section whose k-th record is named names[k]
MapSyms(names) ==
    [k \in 1..Len(names) |->
        [name |-> names[k], sec |-> "maps", value |-> (k - 1) * DEFAULT_SIZEOF_BPF_MAP_DEF,
         type |-> "OBJECT"]]

\* object o with the single map m, named "m"
OneMap(o, m) == [o EXCEPT !.maps = <<m>>, !.symtab = MapSyms(<<"m">>)]

\* an object with a map and a program that both go through tmp_ + rename
FullObj ==
    OneMap([BaseObj EXCEPT !.critical = TRUE,
               !.cs = <<[BaseCs EXCEPT !.prog_def.selinux_context = "fs_bpf_net_shared"]>>],
           [BaseMap EXCEPT !.selinux_context = "fs_bpf_net_shared", !.shared = FALSE])

\* program sections that readCodeSections does not push: one without
\* function symbol, one without data
NoFuncCs == [BaseCs EXCEPT !.section = <<"schedcls", "/", "egress_bar">>, !.funcs = << >>]
EmptyCs == [BaseCs EXCEPT !.section = <<"schedcls", "/", "egress_baz">>, !.data = << >>]
OtherCs == [BaseCs EXCEPT !.section = <<"schedcls", "/", "egress_qux">>,
                          !.funcs = <<"egress_qux">>]

\* objects with such sections before, between and after loadable ones
SectObjs ==
    { [BaseObj EXCEPT !.cs = s] :
        s \in { <<NoFuncCs, BaseCs>>, <<BaseCs, NoFuncCs>>, <<BaseCs, NoFuncCs, OtherCs>>,
                <<EmptyCs, BaseCs>>, <<BaseCs, EmptyCs, OtherCs>>, <<BaseCs, OtherCs>>,
                <<BaseCs, [OtherCs EXCEPT !.last = TRUE]>>,
                <<BaseCs, [EmptyCs EXCEPT !.last = TRUE]>>,
                <<BaseCs, [NoFuncCs EXCEPT !.last = TRUE]>>,
                <<[BaseCs EXCEPT !.last = TRUE]>> } }

\* the bytes of a section of n bytes: all differ from one another and from
\* the bytes of a record that has its defaults only
pattern(n) == [j \in 1..n |-> ((j * 37) % 251) + 1]

\* object o with two maps, "m" and "n"
TwoMaps(o) ==
    [o EXCEPT !.maps = <<BaseMap, [BaseMap EXCEPT !.shared = FALSE]>>,
              !.symtab = MapSyms(<<"m", "n">>)]

\* objects with two ProgDefs and two MapDefs that give the bytes of `progs`
\* and `maps`, for advertised record sizes from the defaults to more than
\* the structs of the build have
RawObjs ==
    { [TwoMaps([BaseObj EXCEPT !.cs = <<BaseCs, OtherCs>>]) EXCEPT
          !.size_of_bpf_prog_def = UintSection(s[1]),
          !.size_of_bpf_map_def = UintSection(s[2]),
          !.raw = [progs |-> pattern(2 * s[1]), maps |-> pattern(2 * s[2])]] :
        s \in { <<20, 32>>, <<24, 40>>, <<28, 48>>, <<32, 52>>, <<20, 52>>, <<32, 32>> } }

\* objects with one or no map whose record sizes are absent, below the
\* defaults or above them and whose `maps` and `progs` end with a whole
\* record or four bytes after it, for a loader inside and outside the window
\* of the object
SizedObjs ==
    { [o EXCEPT !.bpfloader_max_ver = w,
                !.size_of_bpf_map_def = s[1], !.size_of_bpf_prog_def = s[2],
                !.maps_extra = x[1], !.progs_extra = x[2]] :
        o \in {BaseObj, OneMap(BaseObj, BaseMap)},
        w \in {NoSection, UintSection(45)},
        s \in {NoSection, UintSection(16), UintSection(40)}
               \X {NoSection, UintSection(16), UintSection(24)},
        x \in {0, 4} \X {0, 4} }

\* objects with one map of every kind that createMaps treats in its own
\* way, with few entries, a page of them and more, and with and without
\* BPF_F_NO_PREALLOC (1)
TypedObjs ==
    { OneMap(BaseObj, [BaseMap EXCEPT !.type = t, !.max_entries = n, !.map_flags = f,
                                      !.key_size = IF t = "RINGBUF" THEN 0 ELSE 4,
                                      !.value_size = IF t = "RINGBUF" THEN 0 ELSE 8]) :
        t \in {"HASH", "ARRAY", "DEVMAP", "DEVMAP_HASH", "RINGBUF"},
        n \in {16, page_size, 2 * page_size}, f \in {0, 1} }

\* objects with and without `license`, `progs` and `maps`, for a loader
\* inside and outside the window of the object
AbsentObjs ==
    { [o EXCEPT !.license = l, !.progs = p, !.bpfloader_max_ver = w] :
        o \in {BaseObj, OneMap(BaseObj, BaseMap)}, l \in BOOLEAN, p \in BOOLEAN,
        w \in {NoSection, UintSection(45)} }

\* a build whose structs are smaller than those of BaseAbi
OlderAbi ==
    [sizeof_bpf_map_def |-> 40, map_bpfloader_max_ver |-> 28, map_max_kver |-> 36,
     sizeof_bpf_prog_def |-> 24, prog_bpfloader_max_ver |-> 20]

\* a code section without ProgDef; the prog_def of such a section stands for
\* what the section would be gated by if it were bound
NoDefCs == [BaseCs EXCEPT !.section = <<"schedcls", "/", "egress_nodef">>,
                          !.funcs = <<"egress_nodef">>, !.has_def = FALSE]

\* objects with a code section without ProgDef before or after a loadable
\* section, gated out or not by what it would be bound to
DefObjs ==
    { [BaseObj EXCEPT !.critical = crit, !.cs = s] :
        crit \in BOOLEAN,
        s \in { <<NoDefCs, BaseCs>>, <<BaseCs, NoDefCs>>, <<BaseCs, NoDefCs, OtherCs>>,
                <<[NoDefCs EXCEPT !.prog_def.min_kver = KVER(6, 0, 0)], BaseCs>>,
                <<BaseCs, [NoDefCs EXCEPT !.prog_def.bpfloader_max_ver = 1], OtherCs>>,
                <<[BaseCs EXCEPT !.prog_def.min_kver = KVER(6, 0, 0)], NoDefCs>> } }

Seqs(S, n) == UNION {[1..k -> S] : k \in 1..n}

\* the k-th directory entry of location l is the file <dir>/o<l><k><suffix>,
\* where <suffix> is what the object carries in `file` (".o", "@1.o", ...)
Named(l, objs) ==
    [k \in 1..Len(objs) |->
        [objs[k] EXCEPT !.file = locationDir(l) \o <<"o" \o ToString(l) \o ToString(k)>>
                                 \o objs[k].file]]

Dirs(first, second) ==
    [l \in 1..Len(locations) |->
        IF l = 1 THEN Named(1, first) ELSE IF l = 2 THEN Named(2, second) ELSE << >>]

\* struct bpf_map_def and struct bpf_prog_def of the build, whose
\* definitions are not in NetBpfLoad.cpp: their sizes and the offsets of the
\* fields that get a non-zero default
BaseAbi ==
    [sizeof_bpf_map_def |-> 48, map_bpfloader_max_ver |-> 36, map_max_kver |-> 44,
     sizeof_bpf_prog_def |-> 28, prog_bpfloader_max_ver |-> 24]

BaseEnv ==
    [abi |-> BaseAbi,
     kvers |-> KVER(5, 10, 199), api |-> __ANDROID_API_V__, root |-> TRUE,
     buildType |-> "user", arch |-> "arm", kernel64 |-> TRUE, userspace32 |-> FALSE,
     isTV |-> FALSE, isWear |-> FALSE, has_platform_bpfloader_rc |-> FALSE,
     has_platform_netbpfload_rc |-> TRUE]

\* T on 4.9 (v43), U on 4.14 (v44), U as root on 5.4 (v45), V on 5.10 (v46)
LoadingEnvs ==
    { [BaseEnv EXCEPT !.api = __ANDROID_API_T__, !.root = FALSE, !.kvers = KVER(4, 9, 0)],
      [BaseEnv EXCEPT !.api = __ANDROID_API_U__, !.root = FALSE, !.kvers = KVER(4, 14, 0)],
      [BaseEnv EXCEPT !.api = __ANDROID_API_U__, !.kvers = KVER(5, 4, 0)],
      BaseEnv }

\* every api level, uid, kernel and build type, most of them unsupported
AllEnvs ==
    { [BaseEnv EXCEPT !.api = a, !.root = r, !.kvers = k, !.buildType = b] :
        a \in {__ANDROID_API_S__, __ANDROID_API_T__, __ANDROID_API_U__, __ANDROID_API_V__},
        r \in BOOLEAN,
        k \in {KVER(4, 4, 0), KVER(4, 9, 0), KVER(4, 14, 0), KVER(5, 4, 0)},
        b \in {"user", "unknown"} }

\* objects with one map: hash or devmap, shared or not, value size 8 or 16,
\* with or without a selinux_context
MapObjs ==
    { OneMap([BaseObj EXCEPT !.critical = TRUE],
             [BaseMap EXCEPT !.type = t, !.shared = sh, !.value_size = v,
                             !.selinux_context = ctx]) :
        t \in {"HASH", "DEVMAP"}, sh \in BOOLEAN, v \in {8, 16},
        ctx \in {"", "fs_bpf_net_shared"} }

\* objects with two programs, the first accepted or rejected by the verifier,
\* optional or not, with or without a selinux_context
ProgObjs ==
    { [BaseObj EXCEPT !.critical = crit,
          !.cs = <<[BaseCs EXCEPT !.verifier_ok = v, !.prog_def.optional = opt,
                                  !.prog_def.selinux_context = ctx],
                   [BaseCs EXCEPT !.section = <<"schedcls", "/", "egress_bar">>]>>] :
        crit \in BOOLEAN, v \in BOOLEAN, opt \in BOOLEAN,
        ctx \in {"", "fs_bpf_net_shared"} }

\* objects that differ in the `critical` section, the loader window, the
\* required minimum and the presence of a license
VerObjs ==
    { [BaseObj EXCEPT !.critical = crit, !.bpfloader_min_ver = UintSection(w[1]),
                      !.bpfloader_max_ver = UintSection(w[2]),
                      !.bpfloader_min_required_ver = UintSection(req)] :
        crit \in BOOLEAN,
        w \in { <<DEFAULT_BPFLOADER_MIN_VER, DEFAULT_BPFLOADER_MAX_VER>>,
                <<45, DEFAULT_BPFLOADER_MAX_VER>>, <<DEFAULT_BPFLOADER_MIN_VER, 45>> },
        req \in {0, 46} }
    \cup { [BaseObj EXCEPT !.critical = crit, !.license = FALSE] : crit \in BOOLEAN }

\* objects that fail or stop in other ways: unrecognized pin_subdir, a set
\* reserved byte, a gated-out map, a code section without ProgDef, no `progs`
OddObjs ==
    { OneMap(BaseObj, [BaseMap EXCEPT !.pin_subdir = "bogus/"]),
      OneMap(BaseObj, [BaseMap EXCEPT !.zero = 1]),
      OneMap(BaseObj, [BaseMap EXCEPT !.min_kver = KVER(5, 4, 0)]),
      [BaseObj EXCEPT !.cs = <<[BaseCs EXCEPT !.has_def = FALSE]>>],
      [BaseObj EXCEPT !.cs = <<[BaseCs EXCEPT !.prog_def.min_kver = KVER(5, 4, 0)],
                                [BaseCs EXCEPT !.section = <<"schedcls", "/", "egress_bar">>,
                                               !.prog_def.pin_subdir = "bogus/"]>>],
      OneMap(BaseObj, [BaseMap EXCEPT !.type = "DEVMAP_HASH"]),
      OneMap(BaseObj, [BaseMap EXCEPT !.type = "RINGBUF", !.key_size = 0,
                                      !.value_size = 0]),
      [BaseObj EXCEPT !.progs = FALSE] }

\* the symbol table of the objects with two maps "ma" and "mb": the null
\* symbol, then mb before ma (the table is not in address order), the function
\* of the first code section and its ProgDef
RelSyms ==
    << [name |-> "", sec |-> "", value |-> 0, type |-> "NOTYPE"],
       [name |-> "mb", sec |-> "maps", value |-> DEFAULT_SIZEOF_BPF_MAP_DEF, type |-> "OBJECT"],
       [name |-> "ma", sec |-> "maps", value |-> 0, type |-> "OBJECT"],
       [name |-> "ingress_foo", sec |-> "schedcls/ingress_foo", value |-> 0, type |-> "FUNC"],
       [name |-> "ingress_foo_def", sec |-> "progs", value |-> 0, type |-> "OBJECT"] >>

Rel(offset, sym) == [r_offset |-> offset, r_sym |-> sym]

\* relocation sections for a code section of five instructions whose first
\* and third are 64-bit immediate loads: both loads relocated; a record that
\* targets the second half of a load; a record whose symbol is a function; a
\* record whose symbol index is outside the symbol table; two records for one
\* instruction
RelDatas ==
    { <<Rel(0, 2), Rel(16, 1)>>,
      <<Rel(8, 2), Rel(16, 1)>>,
      <<Rel(0, 3), Rel(16, 1)>>,
      <<Rel(0, 5), Rel(16, 1)>>,
      <<Rel(0, 2), Rel(0, 1)>> }

\* objects with maps ma and mb (mb possibly gated out by its min_kver) and two
\* code sections that load the address of a map
RelObjs ==
    { [BaseObj EXCEPT
          !.maps = <<BaseMap, [BaseMap EXCEPT !.min_kver = kv]>>,
          !.symtab = RelSyms,
          !.cs = <<[BaseCs EXCEPT !.data = <<Insn(BPF_LD_IMM_DW), Insn(0), Insn(BPF_LD_IMM_DW),
                                             Insn(0), Insn(149)>>,
                                  !.rel_data = rd],
                   [BaseCs EXCEPT !.section = <<"schedcls", "/", "egress_bar">>,
                                  !.data = <<Insn(BPF_LD_IMM_DW), Insn(0), Insn(149)>>,
                                  !.rel_data = <<Rel(0, 1)>>]>>] :
        kv \in {0, KVER(6, 0, 0)}, rd \in RelDatas }

\* objects of RelObjs whose first code section has a .rel section that ends
\* in the middle of a record: 8 bytes after two records, and 8 bytes only
TruncObjs ==
    { [o EXCEPT !.cs[1].rel_extra = 8] : o \in {r \in RelObjs : r.maps[2].min_kver = 0} }
    \cup { [o EXCEPT !.cs[1].rel_extra = 8, !.cs[1].rel_data = << >>] :
             o \in {r \in RelObjs : r.maps[2].min_kver = 0} }

\* user build on a 64-bit arm kernel, eng build on a 64-bit x86 kernel,
\* userdebug build on riscv64, user build on a 32-bit arm kernel
GateEnvs ==
    { BaseEnv,
      [BaseEnv EXCEPT !.buildType = "eng", !.arch = "x86"],
      [BaseEnv EXCEPT !.buildType = "userdebug", !.arch = "riscv"],
      [BaseEnv EXCEPT !.kernel64 = FALSE] }

IgnoreBits ==
    {"ignore_on_eng", "ignore_on_user", "ignore_on_userdebug", "ignore_on_arm32",
     "ignore_on_aarch64", "ignore_on_x86_32", "ignore_on_x86_64", "ignore_on_riscv64"}

\* MapDef / ProgDef d with one of the gating fields changed: a loader window
\* or kernel window that excludes every environment, or one ignore bit set;
\* and d itself
GateDefs(d) ==
    { [d EXCEPT !.bpfloader_min_ver = 99], [d EXCEPT !.bpfloader_max_ver = 1],
      [d EXCEPT !.min_kver = KVER(6, 0, 0)], [d EXCEPT !.max_kver = KVER(5, 0, 0)], d }
    \cup { [d EXCEPT ![b] = TRUE] : b \in IgnoreBits }

\* objects whose first map, or first program, has one gating field set,
\* possibly with an unrecognized pin_subdir and (maps) a non-zero reserved
\* byte; a plain second map or program follows
GateObjs ==
    { [BaseObj EXCEPT !.maps = <<[g EXCEPT !.zero = z, !.pin_subdir = sub], BaseMap>>,
                      !.symtab = MapSyms(<<"ma", "mb">>)] :
        g \in GateDefs(BaseMap), z \in {0, 1}, sub \in {"", "bogus/"} }
    \cup
    { [BaseObj EXCEPT !.cs = <<[BaseCs EXCEPT !.prog_def = [g EXCEPT !.pin_subdir = sub]],
                               [BaseCs EXCEPT !.section = <<"schedcls", "/", "egress_bar">>]>>] :
        g \in GateDefs(BaseProgDef), sub \in {"", "bogus/"} }

\* an object whose `maps` section holds two records while the symbol table
\* has a symbol for the first only
SymObjs ==
    { [BaseObj EXCEPT !.maps = <<BaseMap, [BaseMap EXCEPT !.value_size = 16]>>,
                      !.symtab = MapSyms(<<"ma">>)] }

\* objects whose map, or first program, names a selinux_context that is none
\* of the known ones
CtxObjs ==
    { OneMap(BaseObj, [BaseMap EXCEPT !.selinux_context = "fs_bpf_bogus"]),
      [BaseObj EXCEPT !.cs = <<[BaseCs EXCEPT !.prog_def.selinux_context = "fs_bpf_bogus"],
                               [BaseCs EXCEPT !.section = <<"schedcls", "/", "egress_bar">>]>>] }

\* objects whose file name has an @ part or a second dot, with a map that is
\* shared or not and a program whose section name has slashes and $ parts;
\* map and program name a pin_subdir and a selinux_context, or neither
NameObjs ==
    { [OneMap(BaseObj, [BaseMap EXCEPT !.shared = sh, !.pin_subdir = sub,
                                       !.selinux_context = ctx])
         EXCEPT !.file = suffix,
                !.cs = <<[BaseCs EXCEPT !.section = sec, !.prog_def.pin_subdir = sub,
                                        !.prog_def.selinux_context = ctx]>>] :
        suffix \in { <<"@", "1", ".", "o">>, <<".", "v2", "@", "1", ".", "o">> },
        sh \in BOOLEAN,
        sub \in {"", "net_shared/"},
        ctx \in {"", "fs_bpf_net_private"},
        sec \in { <<"schedcls", "/", "ingress", "/", "foo", "$", "4_14">>,
                  <<"schedcls", "/", "a", "$", "b", "$", "c">> } }

\* the bytes of a scalar section: none, three, four, four with the low byte
\* above 127, and four followed by more
ScalarBytes ==
    { << >>, <<46, 0, 0>>, <<1, 2, 0, 0>>, <<200, 1, 0, 0>>, <<40, 0, 0, 0, 9, 9>>,
      <<2, 1, 0, 0, 0, 0, 0, 0>> }

ScalarNames ==
    {"bpfloader_min_ver", "bpfloader_max_ver", "bpfloader_min_required_ver",
     "size_of_bpf_map_def", "size_of_bpf_prog_def"}

\* objects in which one scalar section holds one of these byte strings
ScalarObjs ==
    { [BaseObj EXCEPT ![name] = Section(b)] : name \in ScalarNames, b \in ScalarBytes }

\* U and V on kernels 5.10.100, 5.10.199, 5.16 and 6.2, on arm and x86, with a
\* 32-bit or 64-bit kernel and userspace, on a TV, a Wear device or neither
\* (a 32-bit kernel has a 32-bit userspace)
PlatformEnvs ==
    { x \in { [BaseEnv EXCEPT !.api = a, !.kvers = k, !.kernel64 = k64, !.arch = ar,
                              !.userspace32 = u32, !.isTV = tv, !.isWear = w] :
                a \in {__ANDROID_API_U__, __ANDROID_API_V__},
                k \in {KVER(5, 10, 100), KVER(5, 10, 199), KVER(5, 16, 0), KVER(6, 2, 0)},
                k64 \in BOOLEAN, ar \in {"arm", "x86"},
                u32 \in BOOLEAN, tv \in BOOLEAN, w \in BOOLEAN } :
        x.kernel64 \/ x.userspace32 }

InitControl ==
    /\ pc = "doLoad"
    /\ run = 1
    /\ bpfloader_ver = 0
    /\ locIdx = 0
    /\ objIdx = 0
    /\ retVal = 0
    /\ mapIdx = 0
    /\ mapFds = << >>
    /\ csIdx = 0
    /\ fd = NullFd
    /\ progFds = << >>
    /\ csData = << >>
    /\ openFds = [n \in 0..2 |-> "stdio"]
    /\ fs = << >>
    /\ exitCode = NoExit
    /\ log = {}
    /\ rets = {}
    /\ conflicts = {}
    /\ snap = [paths |-> {}, clean |-> FALSE]
    /\ scalars = << >>
    /\ shReads = {}
    /\ mkdirs = << >>
    /\ records = NoRecords
    /\ reqs = {}
    /\ vlogs = {}

\* the loader starts on an empty bpf filesystem
Init ==
    /\ InitControl
    /\ \/ /\ env \in LoadingEnvs
          /\ faultBudget = 0
          /\ \E first \in Seqs({o \in MapObjs : o.maps[1].selinux_context = ""}, MaxObjs) :
                dirs = Dirs(first, << >>)
       \/ /\ env \in LoadingEnvs
          /\ faultBudget = 0
          /\ \E first \in Seqs(VerObjs, MaxObjs) : dirs = Dirs(first, <<FullObj>>)
       \/ /\ env \in LoadingEnvs
          /\ faultBudget \in 0..MaxFaults
          /\ \E first \in Seqs(ProgObjs \cup OddObjs \cup MapObjs, 1) :
                dirs = Dirs(first, <<FullObj>>)
       \/ /\ env \in AllEnvs
          /\ faultBudget = 0
          /\ dirs = Dirs(<<FullObj>>, <<BaseObj>>)
       \/ /\ env = BaseEnv
          /\ faultBudget = 0
          /\ \E o \in RelObjs \cup SymObjs \cup CtxObjs : dirs = Dirs(<<o>>, << >>)
       \/ /\ env \in GateEnvs
          /\ faultBudget = 0
          /\ \E o \in GateObjs : dirs = Dirs(<<o>>, << >>)
       \/ /\ env = BaseEnv
          /\ faultBudget = 0
          /\ \E o \in NameObjs : dirs = Dirs(<<o>>, <<o>>)
       \/ /\ env = BaseEnv
          /\ faultBudget = 0
          /\ \E o \in ScalarObjs : dirs = Dirs(<<o>>, << >>)
       \/ /\ env \in PlatformEnvs
          /\ faultBudget = 0
          /\ dirs = Dirs(<<BaseObj>>, << >>)
       \/ /\ env = BaseEnv
          /\ faultBudget = 0
          /\ \E o \in SectObjs : dirs = Dirs(<<o>>, << >>)
       \/ /\ env = BaseEnv
          /\ faultBudget = 0
          /\ \E o \in DefObjs : dirs = Dirs(<<o>>, <<BaseObj>>)
       \/ /\ env \in {BaseEnv, [BaseEnv EXCEPT !.abi = OlderAbi]}
          /\ faultBudget = 0
          /\ \E o \in RawObjs : dirs = Dirs(<<o>>, << >>)
       \/ /\ env = BaseEnv
          /\ faultBudget = 0
          /\ \E o \in SizedObjs : dirs = Dirs(<<o>>, << >>)
       \/ /\ env \in LoadingEnvs
          /\ faultBudget = 0
          /\ \E o \in TypedObjs : dirs = Dirs(<<o>>, << >>)
       \/ /\ env = BaseEnv
          /\ faultBudget = 0
          /\ \E o \in TruncObjs : dirs = Dirs(<<o>>, << >>)
       \/ /\ env = BaseEnv
          /\ faultBudget = 0
          /\ \E o \in AbsentObjs : dirs = Dirs(<<o>>, <<BaseObj>>)

Next ==
    \/ \E ok \in Outcomes : DoLoad(ok)
    \/ ReadDir
    \/ CloseDir
    \/ \E ok \in Outcomes : Finish(ok)
    \/ \E u \in PastTheEnd : LoadProg(u)
    \/ \E ok \in Outcomes : CreateMap(ok)
    \/ \E ok \in Outcomes : MapPin(ok)
    \/ \E ok \in Outcomes : MapRename(ok)
    \/ \E ok \in Outcomes : MapChmod(ok)
    \/ \E ok \in Outcomes : MapChown(ok)
    \/ CreateMapsDone
    \/ \E ok \in Outcomes : LoadCodeSection(ok)
    \/ \E ok \in Outcomes : ProgPin(ok)
    \/ \E ok \in Outcomes : ProgRename(ok)
    \/ \E ok \in Outcomes : ProgChmod(ok)
    \/ \E ok \in Outcomes : ProgChown(ok)
    \/ LoadCodeSectionsDone
    \/ Rerun

Spec == Init /\ [][Next]_vars

-----------------------------------------------------------------------------
(* Properties *)

ObjOf(r) == dirs[r.loc][r.obj]
RetsOf(l, j) == {r \in rets : r.loc = l /\ r.obj = j}
LogOf(l, j) == {e \in log : e.loc = l /\ e.obj = j}
PinsBy(l, j) == {p \in DOMAIN fs : fs[p].by[1] = l /\ fs[p].by[2] = j}
\* the MapDef / the code section a pin was made for
MapOfPin(p) == dirs[fs[p].by[1]][fs[p].by[2]].maps[fs[p].by[3]]
FinalPins == {p \in DOMAIN fs : isFinalPath(p)}
Attrs(p) == <<fs[p].mode, fs[p].uid, fs[p].gid>>
PinDefaults == <<384, 0, 0>>
\* loadProg is past applyMapRelo
Relocated == pc \in {"loadCodeSections", "prog_pin", "prog_rename", "prog_chmod", "prog_chown"}

\* the instruction index (from 1) that relocation record r targets
TargetOf(r) == r.r_offset \div sizeof_bpf_insn + 1

\* record i of code section k of object o names a symbol of the symbol table
Resolves(o, k, i) == o.cs[k].rel_data[i].r_sym < Len(o.symtab)

\* every record up to record i of section k has a symbol index the symbol
\* table resolves, so that applyMapRelo gets as far as this record
ReachedRel(o, k, i) ==
    /\ \A h \in 1..(k - 1) : \A g \in DOMAIN o.cs[h].rel_data : Resolves(o, h, g)
    /\ \A g \in 1..i : Resolves(o, k, g)

\* the indices of the maps that have the name of the symbol of record r
MapsNamed(o, r) ==
    {j \in DOMAIN mapNames : mapNames[j] = o.symtab[r.r_sym + 1].name}

\* the records of section k that rewrite instruction idx: reached, naming a
\* map, and targeting a 64-bit immediate load
RewritesOf(o, k, idx) ==
    {i \in DOMAIN o.cs[k].rel_data :
        /\ ReachedRel(o, k, i)
        /\ TargetOf(o.cs[k].rel_data[i]) = idx
        /\ MapsNamed(o, o.cs[k].rel_data[i]) # {}
        /\ o.cs[k].data[idx].code = BPF_LD_IMM_DW}

InMapPin == pc \in {"map_pin", "map_rename", "map_chmod", "map_chown"}
InProgPin == pc \in {"prog_pin", "prog_rename", "prog_chmod", "prog_chown"}
InObject == pc \in {"createMaps", "loadCodeSections"} \/ InMapPin \/ InProgPin

\* C1 as stated: at every step, every final pin path that exists has its
\* declared mode, uid and gid
C1_PinsAlwaysConfigured ==
    \A p \in FinalPins : Attrs(p) = fs[p].want

\* C1 as amended: at every step, every final pin path that exists refers to a
\* complete kernel object; it carries the kernel's pin defaults until the
\* chmod that follows the pin (or rename), the declared mode from then on, and
\* the declared mode, uid and gid once the chown that follows has succeeded
C1_PinsConfiguredOnceChowned ==
    \A p \in FinalPins :
        /\ fs[p].kobj.kind = (IF p[2] = "map_" THEN "map" ELSE "prog")
        /\ fs[p].stage = "pinned" => Attrs(p) = PinDefaults
        /\ fs[p].stage = "chmodded" => Attrs(p) = <<fs[p].want[1], 0, 0>>
        /\ fs[p].stage = "chowned" => Attrs(p) = fs[p].want

\* C1 witness: a map went through tmp_ + rename, chmod and chown and now has
\* its declared mode and owner, which are not the pin defaults
C1_Witness ==
    \E p \in FinalPins :
        /\ p[2] = "map_"
        /\ fs[p].stage = "chowned"
        /\ fs[p].want # PinDefaults
        /\ Attrs(p) = fs[p].want
        /\ specified(getDomainFromSelinuxContext(MapOfPin(p).selinux_context))

hasDeclaredShape(k, m) ==
    /\ k.type = effectiveType(m)
    /\ k.key_size = m.key_size
    /\ k.value_size = m.value_size
    /\ k.max_entries = effectiveMaxEntries(m, effectiveType(m))
    /\ k.map_flags = desiredMapFlags(m, effectiveType(m))

\* C3: on kernels >= 4.14 every descriptor createMaps accepts (fresh or
\* reused) and every pin it makes has the five fields of the effective
\* MapDef, and a reused map that differs makes the object return -ENOTUNIQ;
\* on older kernels -ENOTUNIQ is never returned
C3_AcceptedMapsMatch ==
    IF isAtLeastKernelVersion(4, 14, 0)
    THEN /\ InObject =>
              \A i \in 1..Len(mapFds) : mapFds[i].ok => hasDeclaredShape(mapFds[i].kobj, md[i])
         /\ InMapPin => hasDeclaredShape(fd.kobj, CurMap)
         /\ \A p \in DOMAIN fs :
              p[2] \in {"map_", "tmp_map_"} =>
                hasDeclaredShape(fs[p].kobj, MapOfPin(p))
         /\ \A c \in conflicts :
              \E r \in RetsOf(c.loc, c.obj) : r.ret = -ENOTUNIQ /\ r.at = "createMaps"
    ELSE \A r \in rets : r.ret # -ENOTUNIQ

\* C3 witness: on a 4.14+ kernel one shared map was reused by an object that
\* declares it the same way and refused for one that declares it differently
C3_Witness ==
    /\ isAtLeastKernelVersion(4, 14, 0)
    /\ conflicts # {}
    /\ \E r \in rets : /\ r.ret = 0
                       /\ ObjOf(r).maps # << >>
                       /\ ObjOf(r).maps[1].shared

\* C4 as stated: a reused map whose shape differs from the MapDef makes
\* loadProg return non-zero, the pin stays as it was and no BPF_MAP_CREATE is
\* issued for the map
C4_ConflictAlwaysFails ==
    \A c \in conflicts :
        /\ \A r \in RetsOf(c.loc, c.obj) : r.ret # 0
        /\ c.path \in DOMAIN fs /\ fs[c.path] = c.pin
        /\ ~\E e \in LogOf(c.loc, c.obj) : e.op = "BPF_MAP_CREATE" /\ e.idx = c.idx

\* C4 as amended: on kernels >= 4.14 a reused map whose shape differs from the
\* MapDef makes loadProg return -ENOTUNIQ from createMaps; on every kernel the
\* pin stays as it was and no BPF_MAP_CREATE is issued for the map
C4_ConflictFailsOn414 ==
    \A c \in conflicts :
        /\ isAtLeastKernelVersion(4, 14, 0) =>
              \E r \in RetsOf(c.loc, c.obj) : r.ret = -ENOTUNIQ /\ r.at = "createMaps"
        /\ c.path \in DOMAIN fs /\ fs[c.path] = c.pin
        /\ ~\E e \in LogOf(c.loc, c.obj) : e.op = "BPF_MAP_CREATE" /\ e.idx = c.idx

\* C4 witness: value_size 16 declared over a pinned map of value_size 8 on a
\* 4.14+ kernel, and the object has failed
C4_Witness ==
    \E c \in conflicts :
        /\ isAtLeastKernelVersion(4, 14, 0)
        /\ c.pin.kobj.value_size = 8
        /\ ObjOf(c).maps[c.idx].value_size = 16
        /\ \E r \in RetsOf(c.loc, c.obj) : r.ret = -ENOTUNIQ

\* loader_min_ver <= loader_version < loader_max_ver
inWindow(o) ==
    bpfLoaderMinVer(o) <= bpfloader_ver /\ bpfloader_ver < bpfLoaderMaxVer(o)

requiredUnmet(o) == bpfloader_ver < bpfLoaderMinRequiredVer(o)

\* the object has a license, a `progs` section and record sizes of at least
\* the defaults
otherwiseWellFormed(o) ==
    /\ o.license
    /\ o.progs
    /\ sizeOfBpfMapDef(o) >= DEFAULT_SIZEOF_BPF_MAP_DEF
    /\ sizeOfBpfProgDef(o) >= DEFAULT_SIZEOF_BPF_PROG_DEF

Abnormal == exitCode \notin {0, EXIT_EXECVE}

C6_ProceedsIffInWindow ==
    \A r \in rets :
        /\ r.at # "loadProg" <=> inWindow(ObjOf(r))
        /\ ~inWindow(ObjOf(r)) => r.ret = 0

\* C6 as amended: an object with a license, a met loader_min_required_ver, a
\* `progs` section and adequate record sizes goes on to createMaps iff the
\* loader version is inside the half-open window; an object with a license
\* outside the window returns 0 with no kernel object and no pin made for it
C6_WellFormedProceedsIffInWindow ==
    /\ InObject => inWindow(CurObj)
    /\ \A r \in rets :
          /\ otherwiseWellFormed(ObjOf(r)) /\ ~requiredUnmet(ObjOf(r)) =>
                (r.at # "loadProg" <=> inWindow(ObjOf(r)))
          /\ ObjOf(r).license /\ ~inWindow(ObjOf(r)) =>
                /\ r.ret = 0
                /\ r.at = "loadProg"
                /\ LogOf(r.loc, r.obj) = {}
                /\ PinsBy(r.loc, r.obj) = {}

\* C6 witness: with loader version 45 an object with loader_max_ver 45 was
\* skipped and an object with loader_min_ver 45 was loaded
C6_Witness ==
    /\ bpfloader_ver = 45
    /\ \E r, q \in rets :
          /\ bpfLoaderMaxVer(ObjOf(r)) = 45 /\ r.at = "loadProg" /\ r.ret = 0
          /\ bpfLoaderMinVer(ObjOf(q)) = 45 /\ q.at = "loadCodeSections" /\ q.ret = 0

\* loadProg returned r without a failure of a later stage
noLaterFailure(r) == r.at = "loadProg" \/ r.ret = 0

CriticalFailures == {r \in rets : r.loc = locIdx /\ isCritical(ObjOf(r)) /\ r.ret # 0}
FirstOf(F) == CHOOSE r \in F : \A q \in F : r.obj <= q.obj
LastOf(F) == CHOOSE r \in F : \A q \in F : r.obj >= q.obj

C9_ExitTwoIffCriticalFailure ==
    pc = "exited" /\ ~envUnsupported(env) /\ exitCode \notin {EXIT_ABORT, EXIT_KILLED} =>
        (exitCode = 2 <=> \E r \in rets : isCritical(ObjOf(r)) /\ r.ret # 0)

\* C9 witness: a critical object and an object without `critical` failed,
\* status 2
C9_Witness ==
    /\ pc = "exited"
    /\ exitCode = 2
    /\ \E r, q \in rets : /\ isCritical(ObjOf(r)) /\ r.ret # 0
                          /\ ~isCritical(ObjOf(q)) /\ q.ret # 0

\* second case of C9: only an object without `critical` failed and the
\* loader ended normally
C9_WitnessNonCritical ==
    /\ pc = "exited"
    /\ exitCode \in {0, EXIT_EXECVE}
    /\ \E r \in rets : ~isCritical(ObjOf(r)) /\ r.ret # 0

\* the final and the temporary pin path of code section k of object j of
\* location l
ProgPaths(l, j, k) ==
    LET c == dirs[l][j].cs[k]
        name == pathToObjName(dirs[l][j].file)
    IN  {progPinLoc(c, locations[l], name), progCreateLoc(c, name)}

FailedLoads == {e \in log : e.op = "BPF_PROG_LOAD" /\ ~e.ok}

\* C10: a failed BPF_PROG_LOAD leaves the program unpinned (nothing is at its
\* final path and this run has put nothing at its tmp_ path); with optional set
\* loadCodeSections moves on to the following code sections and does not
\* return an error for this one, so that an object that returns 0 has every
\* following accepted, ungated program pinned; with optional unset loadProg
\* returns non-zero from this code section and no later code section of the
\* object is loaded or pinned
C10_OptionalRoutesRejection ==
    \A e \in FailedLoads :
        LET o == dirs[e.loc][e.obj]
            c == o.cs[e.idx]
            later == {k \in DOMAIN o.cs : k > e.idx}
            here == locIdx = e.loc /\ objIdx = e.obj
        IN  /\ progPinLoc(c, locations[e.loc], pathToObjName(o.file)) \notin DOMAIN fs
            /\ ProgPaths(e.loc, e.obj, e.idx) \cap DOMAIN fs \subseteq snap.paths
            /\ c.prog_def.optional =>
                  /\ here /\ (pc = "loadCodeSections" \/ InProgPin) => csIdx > e.idx
                  /\ \A r \in RetsOf(e.loc, e.obj) :
                        /\ r.cs > e.idx
                        /\ r.ret = 0 =>
                              \A k \in later :
                                 o.cs[k].has_def /\ o.cs[k].verifier_ok
                                    /\ ~progSkipped(o.cs[k].prog_def)
                                 => progPinLoc(o.cs[k], locations[e.loc],
                                               pathToObjName(o.file)) \in DOMAIN fs
            /\ ~c.prog_def.optional =>
                  /\ \E r \in RetsOf(e.loc, e.obj) :
                        r.ret # 0 /\ r.at = "loadCodeSections" /\ r.cs = e.idx
                  /\ ~\E f \in LogOf(e.loc, e.obj) : f.op = "BPF_PROG_LOAD" /\ f.idx > e.idx
                  /\ \A k \in later : ProgPaths(e.loc, e.obj, k) \cap DOMAIN fs = {}

\* C10 witness: the verifier rejected an optional program, the program after
\* it was loaded and pinned, and loadProg returned 0
C10_Witness ==
    \E e \in FailedLoads :
        /\ dirs[e.loc][e.obj].cs[e.idx].prog_def.optional
        /\ ~dirs[e.loc][e.obj].cs[e.idx].verifier_ok
        /\ \E f \in LogOf(e.loc, e.obj) : f.op = "BPF_PROG_LOAD" /\ f.idx > e.idx /\ f.ok
        /\ \E r \in RetsOf(e.loc, e.obj) : r.ret = 0

\* second case of C10: the verifier rejected a program with optional unset
\* and the object failed
C10_WitnessNotOptional ==
    \E e \in FailedLoads :
        /\ ~dirs[e.loc][e.obj].cs[e.idx].prog_def.optional
        /\ ~dirs[e.loc][e.obj].cs[e.idx].verifier_ok
        /\ \E r \in RetsOf(e.loc, e.obj) : r.ret # 0

-----------------------------------------------------------------------------
(* Relocation *)

\* C11 as stated: after applyMapRelo, for every relocation record of every
\* code section, the targeted instruction was a 64-bit immediate load and now
\* holds the descriptor number of the map named by the record's symbol, tagged
\* as a pseudo map fd
C11_EveryRecordRewritesALoad ==
    Relocated =>
        \A k \in DOMAIN csData : \A i \in DOMAIN cs[k].rel_data :
            LET r == cs[k].rel_data[i]
                was == cs[k].data[TargetOf(r)]
                now == csData[k][TargetOf(r)]
            IN  /\ was.code = BPF_LD_IMM_DW
                /\ Resolves(CurObj, k, i)
                /\ \E j \in MapsNamed(CurObj, r) : now.imm = mapFds[j].num
                /\ now.src_reg = BPF_PSEUDO_MAP_FD

\* C11 as amended: after applyMapRelo, an instruction that some reached
\* record naming a map targets, and that was a 64-bit immediate load, holds
\* the number in the map vector (-1 for a map gated out) at the first index
\* whose map name is the symbol name of the last such record, tagged as a
\* pseudo map fd; every other instruction is as it was in the object
C11_ReachedMapRecordsRewriteLoads ==
    Relocated =>
        \A k \in DOMAIN csData : \A idx \in DOMAIN cs[k].data :
            LET was == cs[k].data[idx]
                now == csData[k][idx]
                E == RewritesOf(CurObj, k, idx)
            IN  IF CurObj.maps = << >> \/ E = {} THEN now = was
                ELSE LET i == CHOOSE i \in E : \A g \in E : g <= i
                         js == MapsNamed(CurObj, cs[k].rel_data[i])
                         j == CHOOSE j \in js : \A h \in js : j <= h
                     IN  now = [was EXCEPT !.imm = mapFds[j].num,
                                           !.src_reg = BPF_PSEUDO_MAP_FD]

\* both loads of the first code section were rewritten, to the descriptors of
\* two different live maps
C11_Witness ==
    /\ Relocated
    /\ Len(mapFds) = 2 /\ mapFds[1].ok /\ mapFds[2].ok
    /\ csData[1][1].imm = mapFds[1].num /\ csData[1][1].src_reg = BPF_PSEUDO_MAP_FD
    /\ csData[1][3].imm = mapFds[2].num /\ csData[1][3].src_reg = BPF_PSEUDO_MAP_FD
    /\ mapFds[1].num # mapFds[2].num

\* a load was rewritten to -1, the number of the null descriptor of a map
\* that gating skipped
C11_WitnessGated ==
    /\ Relocated
    /\ Len(mapFds) = 2 /\ ~mapFds[2].ok
    /\ csData[1][3].imm = -1 /\ csData[1][3].src_reg = BPF_PSEUDO_MAP_FD

\* record i of section k is reached by applyMapRelo, names a map and targets
\* an instruction that is no 64-bit immediate load
SkippedRel(o, k, i) ==
    /\ ReachedRel(o, k, i)
    /\ MapsNamed(o, o.cs[k].rel_data[i]) # {}
    /\ o.cs[k].data[TargetOf(o.cs[k].rel_data[i])].code # BPF_LD_IMM_DW

\* object o is one of the objects of RelObjs under some file name
IsRelObj(o) == [o EXCEPT !.file = BaseObj.file] \in RelObjs

\* record g of section h comes after record i of section k
LaterRel(h, g, k, i) == h > k \/ (h = k /\ g > i)

\* C12: a record that targets an instruction which is no 64-bit immediate
\* load leaves that instruction as it was; the later records of the section
\* and of later sections that applyMapRelo can apply are applied (their
\* targets carry the pseudo-map-fd tag and a number of the map vector); and
\* loadProg of such an object, nothing else being wrong with it, goes through
\* loadCodeSections and returns 0
C12_BadOpcodeRecordIsSkipped ==
    /\ Relocated =>
          \A k \in DOMAIN csData : \A i \in DOMAIN cs[k].rel_data :
              SkippedRel(CurObj, k, i) =>
                  /\ csData[k][TargetOf(cs[k].rel_data[i])] = cs[k].data[TargetOf(cs[k].rel_data[i])]
                  /\ \A h \in DOMAIN csData : \A idx \in DOMAIN cs[h].data :
                        \A g \in RewritesOf(CurObj, h, idx) :
                            LaterRel(h, g, k, i) =>
                                /\ csData[h][idx].src_reg = BPF_PSEUDO_MAP_FD
                                /\ \E j \in DOMAIN mapFds : csData[h][idx].imm = mapFds[j].num
    /\ \A r \in rets :
          (/\ IsRelObj(ObjOf(r))
           /\ \E k \in DOMAIN ObjOf(r).cs : \E i \in DOMAIN ObjOf(r).cs[k].rel_data :
                 ObjOf(r).cs[k].data[TargetOf(ObjOf(r).cs[k].rel_data[i])].code # BPF_LD_IMM_DW)
          => r.ret = 0 /\ r.at = "loadCodeSections"

\* an object whose first record targets the second half of a load: the
\* targeted instruction is untouched, the load after it and the load of the
\* second code section are rewritten, and both programs were loaded
C12_Witness ==
    /\ pc = "loadCodeSections" /\ csIdx > Len(cs)
    /\ IsRelObj(CurObj)
    /\ SkippedRel(CurObj, 1, 1)
    /\ csData[1][2] = Insn(0)
    /\ csData[1][3].src_reg = BPF_PSEUDO_MAP_FD
    /\ csData[2][1].src_reg = BPF_PSEUDO_MAP_FD
    /\ \A k \in DOMAIN cs : logged("BPF_PROG_LOAD", k, TRUE) \in log

-----------------------------------------------------------------------------
(* Gating *)

\* the gating predicate as the specification words it, for the MapDef or
\* ProgDef d: loader window, kernel window, build flavor, platform
GatedOut(d) ==
    \/ bpfloader_ver < d.bpfloader_min_ver
    \/ bpfloader_ver >= d.bpfloader_max_ver
    \/ env.kvers < d.min_kver
    \/ env.kvers >= d.max_kver
    \/ \E b \in {"eng", "user", "userdebug"} : env.buildType = b /\ d["ignore_on_" \o b]
    \/ env.arch = "arm" /\ ~env.kernel64 /\ d.ignore_on_arm32
    \/ env.arch = "arm" /\ env.kernel64 /\ d.ignore_on_aarch64
    \/ env.arch = "x86" /\ ~env.kernel64 /\ d.ignore_on_x86_32
    \/ env.arch = "x86" /\ env.kernel64 /\ d.ignore_on_x86_64
    \/ env.arch = "riscv" /\ d.ignore_on_riscv64

\* the pins made for item i (of kind "map" or "prog") of object j of location l
PinsOfItem(l, j, i, kind) ==
    {p \in DOMAIN fs : fs[p].by = <<l, j, i>> /\ fs[p].kobj.kind = kind}

\* the MapDefs a statement is about: all of them, or those whose reserved
\* byte is zero
Applies(m, anyZero) == anyZero \/ m.zero = 0

\* the maps that createMaps has gone through are treated as gating says: a
\* gated map has a null descriptor, no BPF_MAP_CREATE and no pin, and neither
\* loadProg returns an error nor the process ends at it; a map that is not
\* gated has a descriptor
MapsGatedAsSaid(anyZero) ==
    /\ InObject =>
          \A i \in DOMAIN mapFds :
              Applies(md[i], anyZero) =>
                  /\ mapFds[i].ok <=> ~GatedOut(md[i])
                  /\ GatedOut(md[i]) =>
                        /\ \A ok \in BOOLEAN : logged("BPF_MAP_CREATE", i, ok) \notin log
                        /\ PinsOfItem(locIdx, objIdx, i, "map") = {}
    /\ \A r \in rets :
          (r.ret # 0 /\ r.at = "createMaps" /\ r.map \in DOMAIN ObjOf(r).maps
           /\ Applies(ObjOf(r).maps[r.map], anyZero))
          => ~GatedOut(ObjOf(r).maps[r.map])
    /\ (exitCode = EXIT_ABORT /\ pc = "exited" /\ Applies(md[mapIdx], anyZero))
          => ~GatedOut(md[mapIdx])

\* the code sections that loadCodeSections has gone through are treated as
\* gating says: a gated program has no descriptor, no BPF_PROG_LOAD and no
\* pin and does not end the object; one that is not gated was retrieved or
\* submitted to the kernel
ProgsGatedAsSaid ==
    /\ InObject =>
          \A i \in DOMAIN progFds :
              IF GatedOut(cs[i].prog_def)
              THEN /\ ~progFds[i].ok
                   /\ \A ok \in BOOLEAN : logged("BPF_PROG_LOAD", i, ok) \notin log
                   /\ PinsOfItem(locIdx, objIdx, i, "prog") = {}
              ELSE progFds[i].ok \/ logged("BPF_PROG_LOAD", i, FALSE) \in log
    /\ \A r \in rets :
          (r.ret # 0 /\ r.at = "loadCodeSections" /\ r.cs \in DOMAIN ObjOf(r).cs
           /\ ObjOf(r).cs[r.cs].has_def)
          => ~GatedOut(ObjOf(r).cs[r.cs].prog_def)

\* C13 as stated: a map or program for which the gating predicate holds gets
\* no descriptor, no BPF_MAP_CREATE / BPF_PROG_LOAD and no pin, and neither
\* loadProg fails nor the process ends at it; one for which it does not hold
\* is not skipped; the predicate is the same for maps and programs
C13_GatedItemsAreSkipped == MapsGatedAsSaid(TRUE) /\ ProgsGatedAsSaid

\* the same holds of programs and of the maps whose reserved byte is zero
GatedItemsWithZeroReservedAreSkipped == MapsGatedAsSaid(FALSE) /\ ProgsGatedAsSaid

\* createMaps went through a first map gated out by its upper kernel bound
\* to the map after it, which has a descriptor
C13_Witness ==
    /\ pc = "loadCodeSections" /\ Len(mapFds) = 2
    /\ md[1].max_kver = KVER(5, 0, 0) /\ md[1].zero = 0
    /\ ~mapFds[1].ok /\ mapFds[2].ok

\* loadCodeSections went through a first program gated out on this platform
\* to the program after it, which was loaded and pinned
C13_WitnessProg ==
    /\ pc = "loadCodeSections" /\ Len(progFds) = 2
    /\ cs[1].prog_def.ignore_on_riscv64 /\ isRiscV
    /\ ~progFds[1].ok /\ progFds[2].ok

\* C14: whenever createMaps has returned success for an object with a `maps`
\* section, the descriptor vector has one entry per MapDef, and entry i is
\* the null descriptor iff gating skips MapDef i
C14_OneDescriptorPerMapDef ==
    (Relocated /\ md # << >>) =>
        /\ Len(mapFds) = Len(md)
        /\ \A i \in DOMAIN mapFds : ~mapFds[i].ok <=> GatedOut(md[i])

\* what holds instead: one entry per symbol of the `maps` section, entry i
\* being null iff gating skips the i-th MapDef
OneDescriptorPerMapSymbol ==
    (Relocated /\ md # << >>) =>
        /\ Len(mapFds) = Len(getSectionSymNames(CurObj, "maps"))
        /\ \A i \in DOMAIN mapFds : ~mapFds[i].ok <=> GatedOut(md[i])

\* C15: a map that passes gating and has a non-zero reserved byte ends the
\* process by abort() before a kernel object or pin exists for it, and the
\* process never aborts at a map that is gated out
C15_OnlyUngatedMapsAbort ==
    /\ InObject =>
          \A i \in DOMAIN mapFds : ~GatedOut(md[i]) => md[i].zero = 0
    /\ (pc = "exited" /\ exitCode = EXIT_ABORT) =>
          /\ md[mapIdx].zero # 0
          /\ ~GatedOut(md[mapIdx])
          /\ \A ok \in BOOLEAN : logged("BPF_MAP_CREATE", mapIdx, ok) \notin log
          /\ PinsOfItem(locIdx, objIdx, mapIdx, "map") = {}

\* what holds instead: the reserved byte of every map createMaps comes to is
\* tested before gating, so the process aborts at any map with a non-zero
\* reserved byte, gated out or not, before anything exists for that map
EveryReachedMapWithReservedByteAborts ==
    /\ InObject => \A i \in DOMAIN mapFds : md[i].zero = 0
    /\ InMapPin => md[mapIdx].zero = 0
    /\ (pc = "exited" /\ exitCode = EXIT_ABORT) =>
          /\ md[mapIdx].zero # 0
          /\ \A ok \in BOOLEAN : logged("BPF_MAP_CREATE", mapIdx, ok) \notin log
          /\ PinsOfItem(locIdx, objIdx, mapIdx, "map") = {}

-----------------------------------------------------------------------------
(* Token decoding *)

KnownPinSubdirs ==
    {"", "tethering/", "net_private/", "net_shared/", "netd_readonly/", "netd_shared/"}

KnownContexts ==
    {"", "fs_bpf_tethering", "fs_bpf_net_private", "fs_bpf_net_shared",
     "fs_bpf_netd_readonly", "fs_bpf_netd_shared"}

\* the MapDef or ProgDef that pin p was made for
DefOfPin(p) ==
    LET o == dirs[fs[p].by[1]][fs[p].by[2]]
    IN  IF fs[p].kobj.kind = "map" THEN o.maps[fs[p].by[3]] ELSE o.cs[fs[p].by[3]].prog_def

\* token decoding of the items that are not gated out: no descriptor, kernel
\* call or pin exists for an item with an unknown pin_subdir, and loadProg
\* returns -ENOTDIR at it; an item with an unknown selinux_context is only
\* ever pinned at a final path, and the objects of CtxObjs load without error
UngatedTokensDecoded ==
    /\ InObject =>
          /\ \A i \in DOMAIN mapFds :
                ~GatedOut(md[i]) => md[i].pin_subdir \in KnownPinSubdirs
          /\ \A i \in DOMAIN progFds :
                ~GatedOut(cs[i].prog_def) => cs[i].prog_def.pin_subdir \in KnownPinSubdirs
          /\ fd.ok => (IF InMapPin THEN md[mapIdx] ELSE cs[csIdx].prog_def).pin_subdir
                          \in KnownPinSubdirs
    /\ \A p \in DOMAIN fs : DefOfPin(p).pin_subdir \in KnownPinSubdirs
    /\ \A e \in log :
          LET o == dirs[e.loc][e.obj]
          IN  (IF e.op = "BPF_MAP_CREATE" THEN o.maps[e.idx] ELSE o.cs[e.idx].prog_def).pin_subdir
                 \in KnownPinSubdirs
    /\ \A r \in rets :
          /\ (r.at = "createMaps" /\ r.map \in DOMAIN ObjOf(r).maps
               /\ ~GatedOut(ObjOf(r).maps[r.map])
               /\ ObjOf(r).maps[r.map].pin_subdir \notin KnownPinSubdirs)
              => r.ret = -ENOTDIR
          /\ (r.at = "loadCodeSections" /\ r.cs \in DOMAIN ObjOf(r).cs
               /\ ObjOf(r).cs[r.cs].has_def
               /\ ~GatedOut(ObjOf(r).cs[r.cs].prog_def)
               /\ ObjOf(r).cs[r.cs].prog_def.pin_subdir \notin KnownPinSubdirs)
              => r.ret = -ENOTDIR
          /\ [ObjOf(r) EXCEPT !.file = BaseObj.file] \in CtxObjs => r.ret = 0
    /\ \A p \in DOMAIN fs :
          DefOfPin(p).selinux_context \notin KnownContexts => isFinalPath(p)

\* loadProg does not return an error at a gated-out item with an unknown
\* pin_subdir
GatedTokensDoNotFail ==
    \A r \in rets :
        /\ (r.at = "createMaps" /\ r.map \in DOMAIN ObjOf(r).maps
             /\ GatedOut(ObjOf(r).maps[r.map]))
            => r.ret = 0
        /\ (r.at = "loadCodeSections" /\ r.cs \in DOMAIN ObjOf(r).cs
             /\ ObjOf(r).cs[r.cs].has_def /\ GatedOut(ObjOf(r).cs[r.cs].prog_def))
            => r.ret = 0

\* C16: for an item that is not gated out, an unknown pin_subdir makes
\* loadProg return -ENOTDIR before a kernel object or pin exists for it and
\* an unknown selinux_context is treated as unspecified (no error, pinned at
\* the final path only); a gated-out item with an unknown pin_subdir does not
\* fail the object: loadProg returns no error at it and the process does not
\* end at it
C16_TokensDecoded ==
    /\ UngatedTokensDecoded
    /\ GatedTokensDoNotFail
    /\ (pc = "exited" /\ exitCode = EXIT_ABORT) =>
          ~(GatedOut(md[mapIdx]) /\ md[mapIdx].pin_subdir \notin KnownPinSubdirs)

\* what holds of the code: the same without the last part, a gated-out map
\* with a non-zero reserved byte ending the process
TokensDecodedButForReservedByte == UngatedTokensDecoded /\ GatedTokensDoNotFail

-----------------------------------------------------------------------------
(* Pin path naming *)

\* x is y without its last part that starts with the character ch (x is y
\* when ch does not occur in y)
WithoutLastPart(x, y, ch) ==
    IF \A k \in DOMAIN y : y[k] # ch THEN x = y
    ELSE \E k \in DOMAIN y :
            /\ y[k] = ch
            /\ \A h \in (k + 1)..Len(y) : y[h] # ch
            /\ x = SubSeq(y, 1, k - 1)

Prefixes(y) == {SubSeq(y, 1, k) : k \in 0..Len(y)}
Suffixes(y) == {SubSeq(y, k, Len(y)) : k \in 1..(Len(y) + 1)}

\* the object name of a file: its last path component without the extension
\* and without an @ part
ObjectNameOf(file) ==
    LET base == CHOOSE b \in Suffixes(file) :
                    /\ \A k \in DOMAIN b : b[k] # "/"
                    /\ Len(b) < Len(file) => file[Len(file) - Len(b)] = "/"
        stem == CHOOSE s \in Prefixes(base) : WithoutLastPart(s, base, ".")
    IN  CHOOSE n \in Prefixes(stem) : WithoutLastPart(n, stem, "@")

\* the name of the i-th MapDef of object o: the symbol of the `maps` section
\* with i - 1 symbols of that section at lower addresses
MapNameOf(o, i) ==
    LET syms == {o.symtab[k] : k \in {h \in DOMAIN o.symtab : o.symtab[h].sec = "maps"}}
    IN  (CHOOSE s \in syms : Cardinality({t \in syms : t.value < s.value}) = i - 1).name

\* the pin name of a program: its section name with every slash an
\* underscore and without its last $ part
ProgNameOf(c) ==
    LET flat == [k \in DOMAIN c.section |-> IF c.section[k] = "/" THEN "_" ELSE c.section[k]]
    IN  CHOOSE n \in Prefixes(flat) : WithoutLastPart(n, flat, "$")

\* the directory of a final pin: the pin_subdir if one is given, else the
\* prefix of the location
PinDirOf(d, l) == BPF_FS_PATH \o (IF d.pin_subdir # "" THEN d.pin_subdir ELSE locations[l])

\* the final pin path of item i (a map or a program) of object j of location l
NamedPath(l, j, i, kind) ==
    LET o == dirs[l][j]
    IN  IF kind = "map"
        THEN << PinDirOf(o.maps[i], l), "map_",
                (IF o.maps[i].shared THEN "" ELSE Str(ObjectNameOf(o.file)))
                   \o "_" \o MapNameOf(o, i) >>
        ELSE << PinDirOf(o.cs[i].prog_def, l), "prog_",
                Str(ObjectNameOf(o.file)) \o "_" \o Str(ProgNameOf(o.cs[i])) >>

\* C17: every final pin lies at /sys/fs/bpf/ + (pin_subdir if specified,
\* else the location prefix) + "map_" + (object name, empty when shared) +
\* "_" + map name, or + "prog_" + object name + "_" + program name (slashes
\* as underscores, without the $ part); the path an item is looked up at is
\* the same, so a map or program that is there is not created again
C17_PinPathsAreNamed ==
    /\ \A p \in FinalPins :
          p = NamedPath(fs[p].by[1], fs[p].by[2], fs[p].by[3], fs[p].kobj.kind)
    /\ \A e \in log :
          NamedPath(e.loc, e.obj, e.idx, IF e.op = "BPF_MAP_CREATE" THEN "map" ELSE "prog")
             \notin snap.paths

\* the file o11.v2@1.o of the first location, with a map that is not shared
\* and a program from section schedcls/a$b$c, both with pin_subdir
\* net_shared/ and selinux_context fs_bpf_net_private: the final pins
C17_Witness ==
    /\ pc = "exited" /\ run = 1
    /\ <<"/sys/fs/bpf/net_shared/", "map_", "o11.v2_m">> \in DOMAIN fs
    /\ <<"/sys/fs/bpf/net_shared/", "prog_", "o11.v2_schedcls_a$b">> \in DOMAIN fs
    /\ dirs[1][1].maps[1].selinux_context = "fs_bpf_net_private"

\* the file o11@1.o with a shared map and no pin_subdir: the map is pinned
\* under the location prefix with an empty object name
C17_WitnessShared ==
    /\ pc = "exited" /\ run = 1
    /\ <<"/sys/fs/bpf/tethering/", "map_", "_m">> \in DOMAIN fs
    /\ <<"/sys/fs/bpf/tethering/", "prog_", "o11_schedcls_ingress_foo">> \in DOMAIN fs

-----------------------------------------------------------------------------
(* Descriptor scoping *)

\* the open descriptors of the ELF file, of maps and of programs
ObjectFds == {n \in DOMAIN openFds : openFds[n] \in {"elf", "map", "prog"}}

\* the descriptor numbers that the locals of the loadProg call in progress hold
HeldNums ==
    {mapFds[i].num : i \in DOMAIN mapFds} \cup {progFds[i].num : i \in DOMAIN progFds}
    \cup {fd.num}

\* C18: whenever loadProg has returned, with success or with any error, no
\* descriptor of the ELF file, of a map or of a program is open; while an
\* object is processed, every open map or program descriptor is one that this
\* loadProg call created or retrieved
C18_DescriptorsScoped ==
    /\ pc \in {"loadAll", "loadProg", "finish"} => ObjectFds = {}
    /\ pc = "exited" /\ exitCode \notin {EXIT_ABORT, EXIT_KILLED} => ObjectFds = {}
    /\ \A n \in ObjectFds : openFds[n] # "elf" => n \in HeldNums

\* loadProg has returned an error from the chown of a program, in an object
\* with a map: a map descriptor and a program descriptor were open
C18_Witness ==
    /\ pc = "loadAll"
    /\ objIdx > 0
    /\ CurObj.maps # << >>
    /\ \E r \in rets : /\ r.loc = locIdx /\ r.obj = objIdx
                        /\ r.ret # 0 /\ r.at = "prog_chown"

\* loadProg has returned 0 after it pinned a map and a program
C18_WitnessSuccess ==
    /\ pc = "loadAll"
    /\ objIdx > 0
    /\ \E r \in rets : r.loc = locIdx /\ r.obj = objIdx /\ r.ret = 0
    /\ \E p, q \in FinalPins :
          /\ fs[p].by[1] = locIdx /\ fs[p].by[2] = objIdx /\ fs[p].kobj.kind = "map"
          /\ fs[q].by[1] = locIdx /\ fs[q].by[2] = objIdx /\ fs[q].kobj.kind = "prog"

\* a map descriptor, a program descriptor and the ELF file are open together
C18_WitnessOpen ==
    \E a, b, c \in DOMAIN openFds :
        openFds[a] = "elf" /\ openFds[b] = "map" /\ openFds[c] = "prog"

-----------------------------------------------------------------------------
(* Scalar sections *)

\* the first four bytes encode v as a little-endian 32-bit unsigned integer
EncodesLE32(bytes, v) ==
    /\ Len(bytes) >= 4
    /\ bytes[1] = v % 256
    /\ bytes[2] = (v \div 256) % 256
    /\ bytes[3] = (v \div 65536) % 256
    /\ bytes[4] = (v \div 16777216) % 256

\* v is what the claim says of a section and a default
ScalarAsSaid(sec, defVal, v) ==
    IF sec.present /\ Len(sec.bytes) >= 4 THEN EncodesLE32(sec.bytes, v) ELSE v = defVal

\* the object whose scalars loadProg read last
ScalarsObj == dirs[scalars.of[1]][scalars.of[2]]

\* C19: each of the five scalars that loadProg read is the value that the
\* first four bytes of its section encode as a little-endian 32-bit unsigned
\* integer when the section exists and has four bytes or more, whatever
\* follows them, and the default of that scalar in every other case
C19_ScalarsReadAsLE32OrDefault ==
    scalars # << >> =>
        /\ ScalarAsSaid(ScalarsObj.bpfloader_min_ver, DEFAULT_BPFLOADER_MIN_VER,
                        scalars.bpfLoaderMinVer)
        /\ ScalarAsSaid(ScalarsObj.bpfloader_max_ver, DEFAULT_BPFLOADER_MAX_VER,
                        scalars.bpfLoaderMaxVer)
        /\ ScalarAsSaid(ScalarsObj.bpfloader_min_required_ver, 0,
                        scalars.bpfLoaderMinRequiredVer)
        /\ ScalarAsSaid(ScalarsObj.size_of_bpf_map_def, DEFAULT_SIZEOF_BPF_MAP_DEF,
                        scalars.sizeOfBpfMapDef)
        /\ ScalarAsSaid(ScalarsObj.size_of_bpf_prog_def, DEFAULT_SIZEOF_BPF_PROG_DEF,
                        scalars.sizeOfBpfProgDef)

\* size_of_bpf_map_def holds the bytes 40 0 0 0 9 9 and was read as 40; the
\* other four sections are absent and were read as their defaults
C19_Witness ==
    /\ scalars # << >>
    /\ ScalarsObj.size_of_bpf_map_def = Section(<<40, 0, 0, 0, 9, 9>>)
    /\ scalars.sizeOfBpfMapDef = 40
    /\ ~ScalarsObj.bpfloader_max_ver.present
    /\ scalars.bpfLoaderMaxVer = DEFAULT_BPFLOADER_MAX_VER

\* bpfloader_max_ver holds the bytes 1 2 0 0 and was read as 513
C19_WitnessOrder ==
    /\ scalars # << >>
    /\ ScalarsObj.bpfloader_max_ver = Section(<<1, 2, 0, 0>>)
    /\ scalars.bpfLoaderMaxVer = 513

\* a section of three bytes and a section of no bytes give the default
C19_WitnessShort ==
    /\ scalars # << >>
    /\ \/ ScalarsObj.bpfloader_min_required_ver = Section(<<46, 0, 0>>)
       \/ ScalarsObj.bpfloader_min_required_ver = Section(<< >>)
    /\ scalars.bpfLoaderMinRequiredVer = 0

-----------------------------------------------------------------------------
(* Unsupported environments *)

\* the oldest kernel an api level accepts: 4.9 for T, 4.14 for U, 4.19 for V
MinKernelOf(api) ==
    IF api >= __ANDROID_API_V__ THEN KVER(4, 19, 0)
    ELSE IF api >= __ANDROID_API_U__ THEN KVER(4, 14, 0)
    ELSE KVER(4, 9, 0)

\* the kernel of e is too old for its api level
KernelTooOld(e) == e.kvers < MinKernelOf(e.api)

\* the arch/bitness combinations that stop the loader: on V a 32-bit kernel
\* that is 5.16 or newer or runs on x86, unless the device is a TV; a 32-bit
\* userspace on a kernel 6.2 or newer, unless the device is a TV or an Arm
\* Wear device
BitnessForbidden(e) ==
    \/ /\ e.api >= __ANDROID_API_V__
       /\ ~e.kernel64
       /\ e.kvers >= KVER(5, 16, 0) \/ e.arch = "x86"
       /\ ~e.isTV
    \/ /\ e.userspace32
       /\ e.kvers >= KVER(6, 2, 0)
       /\ ~e.isTV
       /\ ~(e.isWear /\ e.arch = "arm")

FlavorUnknown(e) == e.buildType \notin {"eng", "user", "userdebug"}

\* the loader has left doLoad with exit code 1 (or has not yet run its
\* checks), no object was handed to loadProg, no map was created, no program
\* was loaded and no pin exists
StoppedBeforeLoading ==
    /\ pc \in {"doLoad", "exited"}
    /\ pc = "exited" => exitCode = 1
    /\ run = 1 => bpfloader_ver = 0 \/ pc = "exited"
    /\ rets = {}
    /\ log = {}
    /\ DOMAIN fs = {}

\* C20 as stated: a kernel too old for the api level, a V kernel below the
\* supported sub-version of its LTS branch, a forbidden arch/bitness
\* combination or an unknown build flavor makes the loader exit with 1
\* before any object is loaded or anything is pinned
C20_UnsupportedExitsOne ==
    \/ KernelTooOld(env)
    \/ env.api >= __ANDROID_API_V__ /\ bad(env)
    \/ BitnessForbidden(env)
    \/ FlavorUnknown(env)
    => StoppedBeforeLoading

\* C20 as amended: a kernel too old for the api level (4.9 for T, 4.14 for U,
\* 4.19 for V), a forbidden arch/bitness combination or an unknown build
\* flavor makes the loader exit with 1 before any object is loaded or
\* anything is pinned; the LTS sub-version of a V kernel is not among them
UnsupportedButForLtsExitsOne ==
    KernelTooOld(env) \/ BitnessForbidden(env) \/ FlavorUnknown(env)
    => StoppedBeforeLoading

\* V with a 32-bit userspace on a 64-bit 6.2 arm kernel, neither TV nor Wear:
\* the loader has exited
C20_Witness ==
    /\ pc = "exited"
    /\ exitCode = 1
    /\ env.api = __ANDROID_API_V__
    /\ env.userspace32 /\ env.kernel64 /\ env.kvers = KVER(6, 2, 0)
    /\ env.arch = "arm" /\ ~env.isTV /\ ~env.isWear
    /\ ~KernelTooOld(env) /\ ~FlavorUnknown(env)

\* V on kernel 4.14, and a build flavor that is none of the three
C20_WitnessKernel ==
    /\ pc = "exited" /\ exitCode = 1
    /\ env.api = __ANDROID_API_V__ /\ env.kvers = KVER(4, 14, 0)
    /\ ~FlavorUnknown(env)

C20_WitnessFlavor ==
    /\ pc = "exited" /\ exitCode = 1
    /\ FlavorUnknown(env) /\ ~KernelTooOld(env)

\* V on kernel 5.10.100 has loaded an object
C20_WitnessLts ==
    /\ env.api = __ANDROID_API_V__ /\ env.kvers = KVER(5, 10, 100)
    /\ \E r \in rets : r.ret = 0
    /\ FinalPins # {}

\* a TV with V on a 32-bit x86 kernel has loaded an object
C20_WitnessTV ==
    /\ env.api = __ANDROID_API_V__ /\ ~env.kernel64 /\ env.arch = "x86" /\ env.isTV
    /\ \E r \in rets : r.ret = 0

-----------------------------------------------------------------------------
(* Durability of pins *)

\* C21: no step of the loader, in any run and whatever fails, removes a pin
\* from a final map_ / prog_ path, puts another inode there or makes the path
\* refer to another kernel object
C21_FinalPinsAreKept ==
    [][\A p \in FinalPins :
          /\ p \in DOMAIN fs'
          /\ fs'[p].kobj = fs[p].kobj
          /\ fs'[p].by = fs[p].by
          /\ fs'[p].run = fs[p].run]_vars

\* in the second run an object has failed while a map pin and a program pin
\* of the first run are in place
C21_Witness ==
    /\ run = 2
    /\ \E r \in rets : r.ret # 0
    /\ \E p, q \in FinalPins :
          /\ fs[p].run = 1 /\ p[2] = "map_"
          /\ fs[q].run = 1 /\ q[2] = "prog_"

\* in the first run a program of an object has failed to load after a map of
\* the same object was pinned
C21_WitnessSameObject ==
    /\ run = 1
    /\ \E r \in rets : /\ r.ret # 0
                        /\ r.at = "loadCodeSections"
                        /\ \E p \in FinalPins : /\ fs[p].by[1] = r.loc
                                                 /\ fs[p].by[2] = r.obj
                                                 /\ p[2] = "map_"

-----------------------------------------------------------------------------
(* The create-then-rename protocol *)

\* the subdirectory of a selinux_context
SubdirOfContext(ctx) ==
    CASE ctx = "fs_bpf_tethering"     -> "tethering/"
      [] ctx = "fs_bpf_net_private"   -> "net_private/"
      [] ctx = "fs_bpf_net_shared"    -> "net_shared/"
      [] ctx = "fs_bpf_netd_readonly" -> "netd_readonly/"
      [] ctx = "fs_bpf_netd_shared"   -> "netd_shared/"

\* the MapDef or ProgDef of item `by` of the given kind
DefOf(by, kind) ==
    IF kind = "map" THEN dirs[by[1]][by[2]].maps[by[3]]
    ELSE dirs[by[1]][by[2]].cs[by[3]].prog_def

\* the name of the tmp_ pin of an item: object name, underscore, map or
\* program name (the object name also when the map is shared)
TmpNameOf(by, kind) ==
    LET o == dirs[by[1]][by[2]]
    IN  Str(ObjectNameOf(o.file)) \o "_" \o
        (IF kind = "map" THEN MapNameOf(o, by[3]) ELSE Str(ProgNameOf(o.cs[by[3]])))

HasContext(d) == d.selinux_context \in KnownContexts \ {""}

\* the item whose pin sequence the loader is in
ItemInHand == IF InMapPin THEN <<locIdx, objIdx, mapIdx>> ELSE <<locIdx, objIdx, csIdx>>
KindInHand == IF InMapPin THEN "map" ELSE "prog"

\* a step that adds path p does so for the item in hand, which was created
\* in this step sequence and is not pinned yet: at the tmp_ path under the
\* subdirectory of its selinux_context when it has one, by a rename of that
\* tmp_ pin to the final path next, and directly at the final path when it
\* has none
AddedAsSaid(p) ==
    LET n == fs'[p]
        d == DefOf(n.by, n.kobj.kind)
        final == NamedPath(n.by[1], n.by[2], n.by[3], n.kobj.kind)
    IN  /\ InMapPin \/ InProgPin
        /\ n.by = ItemInHand /\ n.kobj.kind = KindInHand /\ n.run = run
        /\ ~fd.reuse
        /\ final \notin DOMAIN fs
        /\ n.stage = "pinned"
        /\ IF isTmpPath(p)
           THEN /\ HasContext(d)
                /\ pc \in {"map_pin", "prog_pin"}
                /\ p[1] = BPF_FS_PATH \o SubdirOfContext(d.selinux_context)
                /\ p[2] = "tmp_" \o final[2]
                /\ p[3] = TmpNameOf(n.by, n.kobj.kind)
                /\ DOMAIN fs \subseteq DOMAIN fs'
           ELSE /\ p = final
                /\ IF HasContext(d)
                   THEN /\ pc \in {"map_rename", "prog_rename"}
                        /\ \E q \in DOMAIN fs \ DOMAIN fs' :
                              /\ isTmpPath(q) /\ fs[q] = n
                              /\ DOMAIN fs' = (DOMAIN fs \ {q}) \cup {p}
                   ELSE /\ pc \in {"map_pin", "prog_pin"}
                        /\ DOMAIN fs \subseteq DOMAIN fs'

\* a step that changes the pin at path p is the chmod that follows the pin or
\* rename of the item in hand to its final path, or the chown that follows
\* that chmod
ChangedAsSaid(p) ==
    /\ isFinalPath(p)
    /\ fs[p].by = ItemInHand /\ fs[p].kobj.kind = KindInHand /\ fs[p].run = run
    /\ ~fd.reuse
    /\ \/ /\ pc \in {"map_chmod", "prog_chmod"}
          /\ fs[p].stage = "pinned"
          /\ fs'[p] = [fs[p] EXCEPT !.stage = "chmodded", !.mode = fs[p].want[1]]
       \/ /\ pc \in {"map_chown", "prog_chown"}
          /\ fs[p].stage = "chmodded"
          /\ fs'[p] = [fs[p] EXCEPT !.stage = "chowned", !.uid = fs[p].want[2],
                                     !.gid = fs[p].want[3]]

\* a step of a pin sequence that fails changes nothing in the filesystem and
\* makes loadProg return an error
FailedStepStops ==
    \A r \in rets' \ rets :
        r.at \in {"map_pin", "map_rename", "map_chmod", "map_chown",
                  "prog_pin", "prog_rename", "prog_chmod", "prog_chown"}
        => r.ret # 0 /\ fs' = fs /\ pc' = "loadAll"

\* C22: a fresh map or program with a selinux_context is pinned at its tmp_
\* path under the subdirectory of the context, renamed to its final path,
\* which does not exist, then chmodded, then chowned; one with no
\* selinux_context is pinned at its final path, then chmodded, then chowned;
\* a failing step ends the sequence with an error; nothing is pinned,
\* renamed, chmodded or chowned for a reused item
C22_CreateThenRename ==
    [][/\ \A p \in DOMAIN fs' \ DOMAIN fs : AddedAsSaid(p)
       /\ \A q \in DOMAIN fs \ DOMAIN fs' : \E p \in DOMAIN fs' \ DOMAIN fs : fs'[p] = fs[q]
       /\ \A p \in DOMAIN fs \cap DOMAIN fs' : fs'[p] # fs[p] => ChangedAsSaid(p)
       /\ FailedStepStops
       /\ pc \in {"map_rename", "prog_rename", "map_chmod", "prog_chmod", "map_chown",
                  "prog_chown"} /\ pc' \notin {"loadAll", "exited"} => fs' # fs]_vars

\* a map with selinux_context fs_bpf_net_shared is at its final path with its
\* declared attributes and no tmp_ pin is left, next to a program that was
\* pinned directly
C22_Witness ==
    /\ \E p, q \in FinalPins :
          /\ p[2] = "map_" /\ fs[p].stage = "chowned"
          /\ DefOfPin(p).selinux_context = "fs_bpf_net_shared"
          /\ q[2] = "prog_" /\ fs[q].stage = "chowned"
          /\ DefOfPin(q).selinux_context = ""
    /\ \A p \in DOMAIN fs : isFinalPath(p)

\* the rename of a tmp_ pin has failed
C22_WitnessFailedRename ==
    \E r \in rets : r.at \in {"map_rename", "prog_rename"} /\ r.ret # 0

\* a reused map: its descriptor is held while its pin is one of the first run
C22_WitnessReuse ==
    /\ run = 2
    /\ \E i \in DOMAIN mapFds :
          /\ mapFds[i].ok /\ mapFds[i].reuse
          /\ fs[NamedPath(locIdx, objIdx, i, "map")].run = 1

-----------------------------------------------------------------------------
(* Stage ordering within loadProg *)

\* object o passes the gates of loadProg and its code sections can be read
PassesGates(o) == inWindow(o) /\ ~requiredUnmet(o) /\ otherwiseWellFormed(o)

\* the number of symbols of the `maps` section of object o
MapSymbolCount(o) == Cardinality({k \in DOMAIN o.symtab : o.symtab[k].sec = "maps"})

MapStages == {"createMaps", "map_pin", "map_rename", "map_chmod", "map_chown"}

\* every BPF_MAP_CREATE was issued for an object that passed the gates
MapsCreatedAfterGates ==
    \A e \in log : e.op = "BPF_MAP_CREATE" => PassesGates(dirs[e.loc][e.obj])

\* every BPF_PROG_LOAD was issued for an object that passed the gates, with
\* the map vector complete and relocation done
ProgsLoadedAfterMaps ==
    \A e \in log :
        e.op = "BPF_PROG_LOAD" =>
            /\ PassesGates(dirs[e.loc][e.obj])
            /\ InObject /\ e.loc = locIdx /\ e.obj = objIdx =>
                  /\ Relocated
                  /\ Len(mapFds) = MapSymbolCount(CurObj)
                  /\ \A i \in DOMAIN mapFds :
                        mapFds[i].ok \/ GatedOut(CurObj.maps[i])

\* an object that returned from the gates has issued no bpf() call, and one
\* that failed in createMaps has loaded no program
NoStageAfterFailure ==
    \A r \in rets :
        /\ r.at = "loadProg" => LogOf(r.loc, r.obj) = {}
        /\ r.at \in MapStages /\ r.ret # 0 =>
              \A e \in LogOf(r.loc, r.obj) : e.op # "BPF_PROG_LOAD"

\* every relocation record of object o has a symbol index that the symbol
\* table resolves, so that applyMapRelo does not give up
RelocationSucceeds(o) ==
    \A k \in DOMAIN o.cs : \A i \in DOMAIN o.cs[k].rel_data : Resolves(o, k, i)

\* C23: no BPF_MAP_CREATE is issued before the object passed the gates and
\* its code sections were read, no BPF_PROG_LOAD before every map was dealt
\* with and all relocations were applied, and once a stage has failed (the
\* relocation stage included) no later stage runs for that object
C23_StagesInOrder ==
    /\ MapsCreatedAfterGates
    /\ ProgsLoadedAfterMaps
    /\ NoStageAfterFailure
    /\ \A e \in log :
          e.op = "BPF_PROG_LOAD" => RelocationSucceeds(dirs[e.loc][e.obj])

\* the same without the relocation stage: its failure is not reported and the
\* programs are loaded after it
StagesInOrderButForRelocation ==
    MapsCreatedAfterGates /\ ProgsLoadedAfterMaps /\ NoStageAfterFailure

\* a program of an object with an unresolvable relocation record was loaded
C23_Witness ==
    \E e \in log : /\ e.op = "BPF_PROG_LOAD" /\ e.ok
                    /\ ~RelocationSucceeds(dirs[e.loc][e.obj])

-----------------------------------------------------------------------------
(* Temporary pins *)

TmpPins == {p \in DOMAIN fs : isTmpPath(p)}

\* the loader is between the pin at a tmp_ path and the rename of that pin
AtRename == pc \in {"map_rename", "prog_rename"}

\* a pin sequence of this run was ended by a failed step, at a tmp_ pin that
\* existed before the step
BlockedByTmpPin ==
    \E r \in rets : r.at \in {"map_pin", "prog_pin"} /\ r.ret = -EEXIST

\* C24: whenever createMaps or loadCodeSections has returned, with success or
\* with any error, no tmp_map_ or tmp_prog_ pin exists, and no run is blocked
\* by such a pin
C24_NoTmpPinSurvives ==
    /\ ~AtRename => TmpPins = {}
    /\ ~BlockedByTmpPin

\* a tmp_ pin that exists outside its own pin sequence is one whose rename
\* failed, in this run or an earlier one
TmpPinsAreOfFailedRenames ==
    \A p \in TmpPins :
        \/ AtRename /\ fs[p].by = ItemInHand /\ fs[p].run = run
        \/ fs[p].run < run
        \/ \E r \in rets : /\ r.at \in {"map_rename", "prog_rename"} /\ r.ret # 0
                            /\ r.loc = fs[p].by[1] /\ r.obj = fs[p].by[2]

\* the second run has failed an object at the tmp_ pin that the failed rename
\* of the first run left behind
C24_Witness ==
    /\ run = 2
    /\ BlockedByTmpPin
    /\ \E p \in TmpPins : fs[p].run = 1

-----------------------------------------------------------------------------
(* Scope of a critical failure *)

\* loadProg has returned for object j of location l in this run
Processed(l, j) == \E r \in rets : r.loc = l /\ r.obj = j

\* the locations in which an object with a `critical` section has failed
FailedLocations == {r.loc : r \in {q \in rets : dirs[q.loc][q.obj].critical /\ q.ret # 0}}

\* the loader has ended by returning from doLoad after its environment
\* checks and directory set-up
Returned == pc = "exited" /\ exitCode \notin {EXIT_ABORT, EXIT_KILLED} /\ locIdx >= 1

\* C25: once a critical object has failed in location k, the loader stays in
\* location k, processes each of its remaining objects, processes no object
\* of a later location and returns 2; a location without a critical failure
\* is followed by the next location, and by the end of loading after the last
C25_CriticalFailureScope ==
    /\ \A k \in FailedLocations :
          /\ locIdx = k
          /\ \A l \in DOMAIN dirs : \A j \in DOMAIN dirs[l] : Processed(l, j) => l <= k
          /\ Returned =>
                /\ exitCode = 2
                /\ \A j \in DOMAIN dirs[k] : Processed(k, j)
    /\ Returned /\ FailedLocations = {} =>
          /\ locIdx = Len(locations)
          /\ \A l \in DOMAIN dirs : \A j \in DOMAIN dirs[l] : Processed(l, j)
    /\ pc # "doLoad" =>
          \A l \in 1..(locIdx - 1) :
              /\ l \notin FailedLocations
              /\ \A j \in DOMAIN dirs[l] : Processed(l, j)

\* the first of two critical objects of the first location failed, the second
\* was loaded, the object of the second location was not touched and the
\* loader returned 2
C25_Witness ==
    /\ Returned
    /\ exitCode = 2
    /\ Len(dirs[1]) = 2 /\ dirs[1][1].critical /\ dirs[1][2].critical
    /\ \E r, q \in rets : /\ r.loc = 1 /\ r.obj = 1 /\ r.ret # 0
                          /\ q.loc = 1 /\ q.obj = 2 /\ q.ret = 0
    /\ Len(dirs[2]) = 1 /\ ~Processed(2, 1)

\* an object without `critical` failed in the first location and the object
\* of the second location was processed
C25_WitnessNotCritical ==
    /\ \E r \in rets : r.loc = 1 /\ r.ret # 0 /\ ~dirs[1][r.obj].critical
    /\ Processed(2, 1)

\* a critical object failed in the second location
C25_WitnessSecond ==
    /\ Returned /\ exitCode = 2 /\ 2 \in FailedLocations

-----------------------------------------------------------------------------
(* Descriptors spliced into submitted programs *)

\* the BPF_PROG_LOAD calls issued for the object in hand
LoadsInHand ==
    {e \in log : e.op = "BPF_PROG_LOAD" /\ InObject /\ e.loc = locIdx /\ e.obj = objIdx}

\* the instructions of code section k that a relocation has rewritten
RewrittenIn(k) == {i \in DOMAIN csData[k] : csData[k][i].src_reg = BPF_PSEUDO_MAP_FD}

\* C26: every instruction that a relocation has rewritten in a program
\* submitted to BPF_PROG_LOAD holds the number of an open map descriptor,
\* never the -1 of a map that gating skipped
C26_SubmittedProgramsHoldMapFds ==
    \A e \in LoadsInHand :
        \A i \in RewrittenIn(e.idx) :
            /\ csData[e.idx][i].imm >= 0
            /\ csData[e.idx][i].imm \in DOMAIN openFds
            /\ openFds[csData[e.idx][i].imm] = "map"

\* the same, allowing for -1 where the map of the record was skipped by gating
SubmittedProgramsHoldMapFdsOrNull ==
    \A e \in LoadsInHand :
        \A i \in RewrittenIn(e.idx) :
            \/ /\ csData[e.idx][i].imm \in DOMAIN openFds
               /\ openFds[csData[e.idx][i].imm] = "map"
            \/ /\ csData[e.idx][i].imm = -1
               /\ \E j \in DOMAIN CurObj.maps : GatedOut(CurObj.maps[j]) /\ ~mapFds[j].ok

\* a program was submitted with -1 in a rewritten instruction
C26_Witness ==
    \E e \in LoadsInHand : \E i \in RewrittenIn(e.idx) : csData[e.idx][i].imm = -1

-----------------------------------------------------------------------------
(* Reading of the code sections *)

\* loadProg is past readCodeSections, which returned 0
PastReadCodeSections ==
    pc \in {"createMaps", "map_pin", "map_rename", "map_chmod", "map_chown",
            "loadCodeSections", "prog_pin", "prog_rename", "prog_chmod", "prog_chown"}

\* the program sections of the object in hand that have data
SectionsWithData == {k \in DOMAIN cs : cs[k].data # << >>}

\* the program sections of the object in hand without function symbol
SectionsWithoutFunction == {k \in DOMAIN cs : cs[k].funcs = << >>}

\* C27: whenever readCodeSections has returned 0, every section with a
\* program-type prefix and data is in the list of code sections, and the
\* list is in section-header order; a section without function symbol makes
\* it fail instead of leaving out that section and the ones after it
C27_AllCodeSectionsRead ==
    PastReadCodeSections =>
        /\ \A k \in SectionsWithData : k \in DOMAIN csData
        /\ \A u \in PastTheEnd : \A n, m \in DOMAIN readCodeSections(CurObj, u).cs :
              n < m => readCodeSections(CurObj, u).cs[n] < readCodeSections(CurObj, u).cs[m]
        /\ SectionsWithoutFunction = {}

\* what holds instead: the list has, in order, the sections with data that
\* come before the first section without function symbol
CodeSectionsReadUpToFirstWithoutFunction ==
    PastReadCodeSections =>
        /\ DOMAIN csData = {k \in SectionsWithData :
                               \A h \in SectionsWithoutFunction : k < h}
        /\ \A k \in DOMAIN csData : csData[k] # << >>
        /\ \A u \in PastTheEnd : \A n, m \in DOMAIN readCodeSections(CurObj, u).cs :
              n < m => readCodeSections(CurObj, u).cs[n] < readCodeSections(CurObj, u).cs[m]

\* a section without function symbol is followed by a loadable section, the
\* object has been loaded with success, and nothing of that section is pinned
C27_Witness ==
    /\ \E r \in rets : /\ r.ret = 0
                       /\ \E k \in DOMAIN ObjOf(r).cs :
                             /\ ObjOf(r).cs[k].funcs = << >>
                             /\ \E h \in DOMAIN ObjOf(r).cs :
                                   h > k /\ ObjOf(r).cs[h].funcs # << >>
                                         /\ ObjOf(r).cs[h].data # << >>
    /\ pc = "exited" /\ exitCode = EXIT_EXECVE

-----------------------------------------------------------------------------
(* Bounds of the section header table *)

\* C28: when readCodeSections looks for the relocation section after a code
\* section, the section header it reads is one of the table, also when the
\* code section is the last section of the ELF
C28_ReadsStayInTable == \A e \in shReads : e.inTable

\* what holds instead: the header read is one of the table unless the code
\* section has data and function symbols and is the last section
ReadsStayInTableButAfterLastSection ==
    \A e \in shReads :
        LET c == dirs[e.loc][e.obj].cs[e.after]
        IN  /\ c.data # << >> /\ c.funcs # << >>
            /\ ~e.inTable <=> c.last

\* the header after the last section was read and the loader went on to load
\* and pin the program of that section
C28_Witness ==
    /\ \E e \in shReads : ~e.inTable /\ PinsOfItem(e.loc, e.obj, e.after, "prog") # {}
    /\ pc = "exited" /\ exitCode = EXIT_EXECVE

\* the header after the last section was read and the process was killed
C28_WitnessKilled ==
    /\ \E e \in shReads : ~e.inTable
    /\ pc = "exited" /\ exitCode = EXIT_KILLED

\* the header after the last section was read and loadProg failed
C28_WitnessFailed ==
    /\ \E e \in shReads : ~e.inTable
    /\ \E r \in rets : r.loc = 1 /\ r.at = "readCodeSections" /\ r.ret = -1

-----------------------------------------------------------------------------
(* Pin subdirectories and the completion flag *)

\* the directories under /sys/fs/bpf/ that this run has made or found
Made == {mkdirs[n] : n \in DOMAIN mkdirs}

\* the loader has come to the ELF objects in this run
Loading ==
    \/ pc \in {"loadAll", "loadProg", "finish"} \/ InObject
    \/ rets # {} \/ log # {}

\* every object of every location has been processed in this run, none of
\* those with a `critical` section having failed
AllLocationsDone ==
    /\ \A l \in DOMAIN dirs : \A j \in DOMAIN dirs[l] : Processed(l, j)
    /\ FailedLocations = {}

\* C29: the directory of every location prefix and loader/ exist before the
\* first ELF object is loaded, so that every pin of this run lies in one of
\* them; netd_shared/mainline_done is made only after all locations were
\* processed without critical failure, as the last directory; the loader
\* neither exits 0 nor hands over to the platform loader without having made
\* it, and does not make it in a run that exits with 2
C29_FlagOrdering ==
    /\ Loading => \A l \in DOMAIN locations : locations[l] \in Made
    /\ Loading => "loader" \in Made
    /\ \A p \in DOMAIN fs :
          fs[p].run = run => \E d \in Made \ {"loader"} : p[1] = "/sys/fs/bpf/" \o d
    /\ "netd_shared/mainline_done" \in Made =>
          /\ AllLocationsDone
          /\ pc = "exited"
          /\ mkdirs[Len(mkdirs)] = "netd_shared/mainline_done"
          /\ Len(mkdirs) = Len(locations) + 2
    /\ (pc = "exited" /\ exitCode \in {0, EXIT_EXECVE}) =>
          "netd_shared/mainline_done" \in Made
    /\ (pc = "exited" /\ exitCode = 2) => "netd_shared/mainline_done" \notin Made

\* the loader hands over to the platform loader with the flag made after
\* objects of two locations were pinned
C29_Witness ==
    /\ pc = "exited" /\ exitCode = EXIT_EXECVE
    /\ "netd_shared/mainline_done" \in Made
    /\ \E p, q \in DOMAIN fs : fs[p].run = run /\ fs[q].run = run /\ fs[p].by[1] # fs[q].by[1]

\* a second run exits with 2 and has not made the flag, which the first run
\* has made
C29_WitnessExitTwo ==
    /\ pc = "exited" /\ exitCode = 2 /\ run = 2 /\ snap.clean
    /\ "netd_shared/mainline_done" \notin Made

\* the loader exits 0, not running as root, with the flag made
C29_WitnessExitZero ==
    pc = "exited" /\ exitCode = 0 /\ "netd_shared/mainline_done" \in Made

\* the flag could not be made, or the self test failed: exit 1
C29_WitnessNoFlag ==
    /\ pc = "exited" /\ exitCode = 1 /\ AllLocationsDone /\ Loading
    /\ "netd_shared/mainline_done" \notin Made

-----------------------------------------------------------------------------
(* Binding of the `maps` symbols to the MapDef records *)

\* the places in the symbol table of o of the symbols of its `maps` section
MapSymbolsOf(o) == {k \in DOMAIN o.symtab : o.symtab[k].sec = "maps"}

\* the place in the symbol table of the i-th symbol of `maps`, counted in the
\* order of the table / in ascending order of st_value
NthInTableOrder(o, i) ==
    CHOOSE k \in MapSymbolsOf(o) : Cardinality({h \in MapSymbolsOf(o) : h < k}) = i - 1
NthByValue(o, i) ==
    CHOOSE k \in MapSymbolsOf(o) :
        Cardinality({h \in MapSymbolsOf(o) : o.symtab[h].value < o.symtab[k].value}) = i - 1

\* the final pins of maps
MapPins == {p \in FinalPins : fs[p].kobj.kind = "map"}

\* pin p has the name of symbol k of the object it was made for
PinNamedBy(p, k) ==
    LET o == dirs[fs[p].by[1]][fs[p].by[2]]
    IN  p[3] = (IF o.maps[fs[p].by[3]].shared THEN "" ELSE Str(ObjectNameOf(o.file)))
                  \o "_" \o o.symtab[k].name

\* the relocation records of section k of the object in hand that name a
\* symbol of `maps`, are reached and target the 64-bit immediate load idx
MapRecordsFor(k, idx) ==
    {i \in DOMAIN cs[k].rel_data :
        /\ ReachedRel(CurObj, k, i)
        /\ TargetOf(cs[k].rel_data[i]) = idx
        /\ cs[k].rel_data[i].r_sym + 1 \in MapSymbolsOf(CurObj)
        /\ cs[k].data[idx].code = BPF_LD_IMM_DW}

\* the descriptor number of the record that symbol k of the object in hand
\* names when the symbols are counted as `order` counts them
FdOfSymbol(k, order(_, _)) ==
    LET n == CHOOSE n \in 1..Cardinality(MapSymbolsOf(CurObj)) : order(CurObj, n) = k
    IN  mapFds[n].num

\* C30: the N-th symbol of `maps` in the order of the symbol table names the
\* N-th MapDef record: the pin of a map has the name of that symbol and a
\* relocation against a symbol resolves to the descriptor of that record; to
\* count the symbols in ascending order of st_value gives the same binding
C30_BoundInTableOrder ==
    /\ \A p \in MapPins :
          /\ PinNamedBy(p, NthInTableOrder(dirs[fs[p].by[1]][fs[p].by[2]], fs[p].by[3]))
          /\ NthInTableOrder(dirs[fs[p].by[1]][fs[p].by[2]], fs[p].by[3])
                = NthByValue(dirs[fs[p].by[1]][fs[p].by[2]], fs[p].by[3])
    /\ Relocated =>
          \A k \in DOMAIN csData : \A idx \in DOMAIN csData[k] :
              MapRecordsFor(k, idx) # {} =>
                  csData[k][idx].imm \in
                      {FdOfSymbol(cs[k].rel_data[i].r_sym + 1, NthInTableOrder) :
                          i \in MapRecordsFor(k, idx)}

\* C30 as amended: the N-th symbol of `maps` in ascending order of st_value
\* names the N-th MapDef record: the pin of a map has the name of that symbol
\* and a relocation against a symbol resolves to the descriptor of that
\* record
SymbolsBoundByValue ==
    /\ \A p \in MapPins :
          PinNamedBy(p, NthByValue(dirs[fs[p].by[1]][fs[p].by[2]], fs[p].by[3]))
    /\ Relocated =>
          \A k \in DOMAIN csData : \A idx \in DOMAIN csData[k] :
              MapRecordsFor(k, idx) # {} =>
                  csData[k][idx].imm \in
                      {FdOfSymbol(cs[k].rel_data[i].r_sym + 1, NthByValue) :
                          i \in MapRecordsFor(k, idx)}

\* an object whose symbol table has mb, the symbol of the second record,
\* before ma: the first record is pinned as ma, the second as mb, and the
\* load relocated against mb holds the descriptor of the second record
C30_Witness ==
    /\ Relocated
    /\ MapSymbolsOf(CurObj) = {2, 3}
    /\ CurObj.symtab[2].value > CurObj.symtab[3].value
    /\ \E p, q \in MapPins :
          /\ fs[p].by = <<locIdx, objIdx, 1>> /\ PinNamedBy(p, 3)
          /\ fs[q].by = <<locIdx, objIdx, 2>> /\ PinNamedBy(q, 2)
    /\ \E k \in DOMAIN csData : \E idx \in DOMAIN csData[k] :
          /\ \E i \in MapRecordsFor(k, idx) : cs[k].rel_data[i].r_sym = 1
          /\ \A i \in MapRecordsFor(k, idx) : cs[k].rel_data[i].r_sym = 1
          /\ csData[k][idx].imm = mapFds[2].num
          /\ mapFds[2].ok /\ mapFds[1].ok

-----------------------------------------------------------------------------
(* Code sections without ProgDef *)

\* the code sections of object o that loadCodeSections gets from
\* readCodeSections: those with data, before the first section without
\* function symbol
SectionsGiven(o) ==
    {k \in DOMAIN o.cs :
        /\ o.cs[k].data # << >>
        /\ \A h \in 1..k : o.cs[h].funcs # << >>}

\* the sections of o that loadCodeSections gets and that have no ProgDef
Unbound(o) == {k \in SectionsGiven(o) : ~o.cs[k].has_def}

\* C31: a code section without ProgDef ends loadCodeSections with an error
\* when the loop comes to it, whatever its gates would say: no BPF_PROG_LOAD
\* is issued for it or for a later section, nothing is pinned for them, the
\* loop does not go past it and the object does not load with success
C31_MissingProgDefIsFatal ==
    /\ \A e \in log :
          e.op = "BPF_PROG_LOAD" => \A k \in Unbound(dirs[e.loc][e.obj]) : e.idx < k
    /\ \A p \in DOMAIN fs :
          fs[p].kobj.kind = "prog" =>
              \A k \in Unbound(dirs[fs[p].by[1]][fs[p].by[2]]) : fs[p].by[3] < k
    /\ (pc = "loadCodeSections" \/ InProgPin) => \A k \in Unbound(CurObj) : csIdx <= k
    /\ \A r \in rets :
          /\ (r.at = "loadCodeSections" /\ r.cs \in Unbound(ObjOf(r))) => r.ret = -EINVAL
          /\ (r.at = "loadCodeSections" /\ Unbound(ObjOf(r)) # {}) =>
                /\ r.ret # 0
                /\ r.cs \in DOMAIN ObjOf(r).cs
                /\ \A k \in Unbound(ObjOf(r)) : r.cs <= k

\* an object whose second section has no ProgDef and would be gated out by
\* the loader version: the first section was loaded and pinned, loadProg
\* returned -EINVAL at the second and the third was not loaded
C31_Witness ==
    \E r \in rets :
        /\ r.at = "loadCodeSections" /\ r.cs = 2 /\ r.ret = -EINVAL
        /\ ~ObjOf(r).cs[2].has_def /\ progSkipped(ObjOf(r).cs[2].prog_def)
        /\ Len(ObjOf(r).cs) = 3
        /\ PinsOfItem(r.loc, r.obj, 1, "prog") # {}
        /\ PinsOfItem(r.loc, r.obj, 3, "prog") = {}

\* the first section has no ProgDef and nothing was loaded for the object
C31_WitnessFirst ==
    \E r \in rets :
        /\ r.at = "loadCodeSections" /\ r.cs = 1 /\ r.ret = -EINVAL
        /\ Len(ObjOf(r).cs) = 2 /\ LogOf(r.loc, r.obj) = {}

-----------------------------------------------------------------------------
(* Decoding of `progs` and `maps` into bpf_prog_def and bpf_map_def *)

\* byte b (from 0) of a record that was zeroed and given its defaults:
\* bpfloader_max_ver = DEFAULT_BPFLOADER_MAX_VER in both structs, and
\* max_kver = 0xFFFFFFFF in a bpf_map_def
DefaultByte(maxVerAt, maxKverAt, b) ==
    IF b \in maxKverAt THEN 255
    ELSE IF b = maxVerAt THEN DEFAULT_BPFLOADER_MAX_VER % 256
    ELSE IF b = maxVerAt + 1 THEN (DEFAULT_BPFLOADER_MAX_VER \div 256) % 256
    ELSE IF b = maxVerAt + 2 THEN (DEFAULT_BPFLOADER_MAX_VER \div 65536) % 256
    ELSE IF b = maxVerAt + 3 THEN DEFAULT_BPFLOADER_MAX_VER \div 16777216
    ELSE 0

\* recs are the records of native bytes each that the section bytes data
\* decode to for the advertised record size s: record k has the bytes at
\* file offsets k*s .. k*s + min(s, native) - 1 and its defaults after them
DecodedFrom(recs, data, s, native, maxVerAt, maxKverAt) ==
    /\ Len(recs) = Len(data) \div s
    /\ \A k \in 0..(Len(recs) - 1) :
          /\ DOMAIN recs[k + 1] = 1..native
          /\ \A b \in 0..(native - 1) :
                recs[k + 1][b + 1] =
                    IF b < s /\ b < native THEN data[k * s + b + 1]
                    ELSE DefaultByte(maxVerAt, maxKverAt, b)

\* C32: for every advertised record size s of at least the default and every
\* record index k, record k of pd and of md is a zeroed record with the
\* defaults overwritten by the first min(s, native size) bytes at file offset
\* k*s: bytes beyond the native size are ignored, fields beyond s keep their
\* defaults
C32_StructPrefixDecoding ==
    LET o == dirs[records.of[1]][records.of[2]]
        abi == env.abi
    IN  records # NoRecords =>
            /\ sizeOfBpfProgDef(o) >= DEFAULT_SIZEOF_BPF_PROG_DEF
            /\ DecodedFrom(records.pd, o.raw.progs, sizeOfBpfProgDef(o),
                           abi.sizeof_bpf_prog_def, abi.prog_bpfloader_max_ver, {})
            /\ records.maps =>
                  /\ sizeOfBpfMapDef(o) >= DEFAULT_SIZEOF_BPF_MAP_DEF
                  /\ DecodedFrom(records.md, o.raw.maps, sizeOfBpfMapDef(o),
                                 abi.sizeof_bpf_map_def, abi.map_bpfloader_max_ver,
                                 abi.map_max_kver..(abi.map_max_kver + 3))

\* two ProgDefs and two MapDefs were decoded from records larger than the
\* structs of the build
C32_Witness ==
    LET o == dirs[records.of[1]][records.of[2]]
    IN  /\ records # NoRecords /\ records.maps
        /\ Len(records.pd) = 2 /\ Len(records.md) = 2
        /\ sizeOfBpfProgDef(o) > env.abi.sizeof_bpf_prog_def
        /\ sizeOfBpfMapDef(o) > env.abi.sizeof_bpf_map_def

\* the same from records smaller than the structs: bpfloader_max_ver and
\* max_kver of the second MapDef kept their defaults
C32_WitnessShort ==
    LET o == dirs[records.of[1]][records.of[2]]
    IN  /\ records # NoRecords /\ records.maps
        /\ Len(records.pd) = 2 /\ Len(records.md) = 2
        /\ sizeOfBpfProgDef(o) < env.abi.sizeof_bpf_prog_def
        /\ sizeOfBpfMapDef(o) < env.abi.sizeof_bpf_map_def
        /\ records.md[2][env.abi.map_max_kver + 1] = 255

-----------------------------------------------------------------------------
(* Record sizes and section lengths that do not fit *)

\* object o advertises a record size below its default, or its `maps` or
\* `progs` section is not a whole number of records of the advertised size
BadSizing(o) ==
    \/ sizeOfBpfMapDef(o) < DEFAULT_SIZEOF_BPF_MAP_DEF
    \/ sizeOfBpfProgDef(o) < DEFAULT_SIZEOF_BPF_PROG_DEF
    \/ (Len(o.maps) * sizeOfBpfMapDef(o) + o.maps_extra) % sizeOfBpfMapDef(o) # 0
    \/ /\ o.progs
       /\ (Cardinality({k \in DOMAIN o.cs : o.cs[k].has_def}) * sizeOfBpfProgDef(o)
              + o.progs_extra) % sizeOfBpfProgDef(o) # 0

\* nothing was created, loaded or pinned for the objects in S
Untouched(S) ==
    /\ \A e \in log : <<e.loc, e.obj>> \notin S
    /\ \A p \in DOMAIN fs : <<fs[p].by[1], fs[p].by[2]>> \notin S

\* the objects, as <<location, index>>, that have bad record sizing
BadlySized ==
    UNION {{<<l, j>> : j \in {i \in DOMAIN dirs[l] : BadSizing(dirs[l][i])}} : l \in DOMAIN dirs}

\* C33 as stated: for an object with bad record sizing loadProg returns a
\* non-zero error, and no map is created, no program is loaded and nothing
\* is pinned for it
C33_BadSizingFails ==
    /\ \A r \in rets : BadSizing(ObjOf(r)) => r.ret # 0
    /\ Untouched(BadlySized)

\* C33 as amended: for an object with bad record sizing loadProg returns a
\* non-zero error when the loader version is inside the window
\* [loader_min_ver, loader_max_ver) of the object, and 0 without looking at
\* the sizes when it is outside; either way no map is created, no program is
\* loaded and nothing is pinned for the object
BadSizingFailsInWindow ==
    /\ \A r \in rets :
          (BadSizing(ObjOf(r)) /\ ObjOf(r).license) =>
              (r.ret # 0 <=> inWindow(ObjOf(r)))
    /\ \A r \in rets : (BadSizing(ObjOf(r)) /\ ~ObjOf(r).license) => r.ret # 0
    /\ Untouched(BadlySized)

\* inside its window, an object with a map whose `maps` section has four
\* bytes after its record failed in createMaps before the map was created
C33_Witness ==
    \E r \in rets :
        /\ r.at = "createMaps" /\ r.ret = -1 /\ inWindow(ObjOf(r))
        /\ ObjOf(r).maps_extra = 4 /\ Len(ObjOf(r).maps) = 1
        /\ LogOf(r.loc, r.obj) = {}

\* one whose `progs` has four bytes too many failed in readCodeSections, one
\* advertising 16 bytes per MapDef failed before that, and outside its
\* window such an object returned 0
C33_WitnessProgs ==
    \E r \in rets :
        /\ r.at = "readCodeSections" /\ r.ret = -1 /\ inWindow(ObjOf(r))
        /\ ObjOf(r).progs_extra = 4

C33_WitnessSmall ==
    \E r \in rets :
        /\ r.at = "loadProg" /\ r.ret = -1 /\ inWindow(ObjOf(r))
        /\ sizeOfBpfMapDef(ObjOf(r)) < DEFAULT_SIZEOF_BPF_MAP_DEF

C33_WitnessOutside ==
    \E r \in rets :
        /\ r.ret = 0 /\ ~inWindow(ObjOf(r)) /\ BadSizing(ObjOf(r))

-----------------------------------------------------------------------------
(* The parameters of BPF_MAP_CREATE *)

\* C34: a declared devmap is created as a plain array exactly when the
\* kernel is older than 4.14, a declared devmap-hash as a hash exactly when
\* the kernel is older than 5.4, every other type as declared; key_size,
\* value_size and map_flags are passed unchanged, and max_entries is passed
\* unchanged except that for ringbuf a value below page_size becomes
\* page_size
C34_EffectiveMapParameters ==
    \A c \in reqs :
        LET m == dirs[c.loc][c.obj].maps[c.idx]
        IN  /\ m.type = "DEVMAP" =>
                  /\ c.req.map_type \in {"ARRAY", "DEVMAP"}
                  /\ c.req.map_type = "ARRAY" <=> env.kvers < KVER(4, 14, 0)
            /\ m.type = "DEVMAP_HASH" =>
                  /\ c.req.map_type \in {"HASH", "DEVMAP_HASH"}
                  /\ c.req.map_type = "HASH" <=> env.kvers < KVER(5, 4, 0)
            /\ m.type \notin {"DEVMAP", "DEVMAP_HASH"} => c.req.map_type = m.type
            /\ c.req.key_size = m.key_size
            /\ c.req.value_size = m.value_size
            /\ c.req.map_flags = m.map_flags
            /\ c.req.max_entries =
                  IF m.type = "RINGBUF" /\ m.max_entries < page_size THEN page_size
                  ELSE m.max_entries

\* a devmap with BPF_F_NO_PREALLOC was created as an array on a kernel
\* older than 4.14
C34_Witness ==
    \E c \in reqs :
        /\ dirs[c.loc][c.obj].maps[c.idx].type = "DEVMAP"
        /\ dirs[c.loc][c.obj].maps[c.idx].map_flags = 1
        /\ c.req.map_type = "ARRAY" /\ env.kvers < KVER(4, 14, 0)

\* a devmap was created as such, a devmap-hash as a hash and as such, a
\* ring buffer of 16 entries with a page of them and one of two pages as
\* declared
C34_WitnessDevmap ==
    \E c \in reqs :
        /\ dirs[c.loc][c.obj].maps[c.idx].type = "DEVMAP"
        /\ c.req.map_type = "DEVMAP" /\ c.req.map_flags = 1

C34_WitnessHash ==
    \E c \in reqs :
        /\ dirs[c.loc][c.obj].maps[c.idx].type = "DEVMAP_HASH"
        /\ c.req.map_type = "HASH" /\ env.kvers >= KVER(4, 14, 0)

C34_WitnessDevmapHash ==
    \E c \in reqs :
        /\ dirs[c.loc][c.obj].maps[c.idx].type = "DEVMAP_HASH"
        /\ c.req.map_type = "DEVMAP_HASH"

C34_WitnessRingbuf ==
    \E c \in reqs :
        /\ dirs[c.loc][c.obj].maps[c.idx].type = "RINGBUF"
        /\ dirs[c.loc][c.obj].maps[c.idx].max_entries = 16
        /\ c.req.max_entries = page_size

C34_WitnessRingbufLarge ==
    \E c \in reqs :
        /\ dirs[c.loc][c.obj].maps[c.idx].type = "RINGBUF"
        /\ c.req.max_entries = 2 * page_size

-----------------------------------------------------------------------------
(* Relocation sections that are not a whole number of records *)

\* the length of the relocation bytes of code section c is not a multiple
\* of the size of an Elf64_Rel
OddRelData(c) == (Len(c.rel_data) * sizeof_Elf64_Rel + c.rel_extra) % sizeof_Elf64_Rel # 0

\* C35: a code section whose relocation bytes are not a whole number of
\* Elf64_Rel records is not loaded, and loadProg does not succeed for its
\* object
C35_OddRelDataRejected ==
    /\ \A e \in log :
          e.op = "BPF_PROG_LOAD" => ~OddRelData(dirs[e.loc][e.obj].cs[e.idx])
    /\ \A r \in rets :
          (\E k \in DOMAIN ObjOf(r).cs : OddRelData(ObjOf(r).cs[k])) => r.ret # 0

-----------------------------------------------------------------------------
(* Objects without `maps`, `license` or `progs` *)

\* the objects, as <<location, index>>, that P holds of
ObjectsThat(P(_)) ==
    UNION {{<<l, j>> : j \in {i \in DOMAIN dirs[l] : P(dirs[l][i])}} : l \in DOMAIN dirs}

NoMapsSection(o) == o.maps = << >> /\ o.maps_extra = 0
NoLicense(o) == ~o.license
NoProgs(o) == ~o.progs

\* an object without `maps` gets no descriptor into mapFds and does not
\* fail in createMaps
NoMapsProceeds ==
    /\ (InObject /\ NoMapsSection(CurObj)) => mapFds = << >>
    /\ \A r \in rets : NoMapsSection(ObjOf(r)) => r.at \notin {"createMaps"}
    /\ \A c \in reqs : ~NoMapsSection(dirs[c.loc][c.obj])

\* C36 as stated: an object without `maps` proceeds with an empty map
\* vector, an object without `license` fails before any kernel object is
\* created, and an object without `progs` fails with a per-object error
\* before any map is created or pinned
C36_AbsentSections ==
    /\ NoMapsProceeds
    /\ \A r \in rets : NoLicense(ObjOf(r)) => r.ret # 0
    /\ Untouched(ObjectsThat(NoLicense))
    /\ \A r \in rets : NoProgs(ObjOf(r)) => r.ret # 0
    /\ Untouched(ObjectsThat(NoProgs))

\* C36 as amended: the same, but an object with `license` and without
\* `progs` fails only when the loader version is inside its window
\* [loader_min_ver, loader_max_ver); outside it loadProg returns 0, again
\* before any map is created or pinned
AbsentSectionsInWindow ==
    /\ NoMapsProceeds
    /\ \A r \in rets : NoLicense(ObjOf(r)) => r.ret # 0
    /\ Untouched(ObjectsThat(NoLicense))
    /\ \A r \in rets :
          (NoProgs(ObjOf(r)) /\ ~NoLicense(ObjOf(r))) =>
              (r.ret # 0 <=> inWindow(ObjOf(r)))
    /\ Untouched(ObjectsThat(NoProgs))

\* an object without `maps` had its program loaded and pinned and loadProg
\* returned 0; an object without `license` and one with a map and without
\* `progs`, inside its window, failed
C36_Witness ==
    /\ \E r \in rets :
          /\ NoMapsSection(ObjOf(r)) /\ r.ret = 0
          /\ logged("BPF_PROG_LOAD", 1, TRUE) \in LogOf(r.loc, r.obj)
          /\ PinsOfItem(r.loc, r.obj, 1, "prog") # {}
    /\ \E r \in rets :
          /\ NoProgs(ObjOf(r)) /\ ~NoLicense(ObjOf(r)) /\ inWindow(ObjOf(r))
          /\ ObjOf(r).maps # << >> /\ r.ret # 0

C36_WitnessNoLicense ==
    \E r \in rets : NoLicense(ObjOf(r)) /\ ObjOf(r).maps # << >> /\ r.ret # 0

\* outside its window, an object with a map, a license and no `progs`
\* returned 0
C36_WitnessOutside ==
    \E r \in rets :
        /\ NoProgs(ObjOf(r)) /\ ~NoLicense(ObjOf(r)) /\ ~inWindow(ObjOf(r))
        /\ ObjOf(r).maps # << >> /\ r.ret = 0

-----------------------------------------------------------------------------
(* The verifier log *)

\* the code section a verifier log or a BPF_PROG_LOAD was for
SectionOf(v) == dirs[v.loc][v.obj].cs[v.idx]

\* the BPF_PROG_LOAD attempts of this run that failed, as vlogs names them
FailedLoadAttempts ==
    {[loc |-> e.loc, obj |-> e.obj, idx |-> e.idx] :
        e \in {x \in log : x.op = "BPF_PROG_LOAD" /\ ~x.ok}}

\* C37 as stated: the verifier log is written only for a BPF_PROG_LOAD that
\* failed and whose program is not optional
C37_LogOnlyForNonOptionalFailure ==
    \A v \in vlogs : v \in FailedLoadAttempts /\ ~SectionOf(v).prog_def.optional

\* C37 as amended: the verifier log is written exactly for the
\* BPF_PROG_LOAD attempts that failed, whether the program is optional or
\* not, hence never for a successful load or a reused program
VerifierLogForEveryFailedLoad == vlogs = FailedLoadAttempts

\* the verifier log of an optional program was written and the loop went on
\* to the end of its object with success; that of a program that is not
\* optional was written and loadProg failed
C37_Witness ==
    \E v \in vlogs :
        /\ SectionOf(v).prog_def.optional
        /\ \E r \in rets : r.loc = v.loc /\ r.obj = v.obj /\ r.ret = 0

C37_WitnessNonOptional ==
    \E v \in vlogs :
        /\ ~SectionOf(v).prog_def.optional
        /\ \E r \in rets : r.loc = v.loc /\ r.obj = v.obj /\ r.ret = -1

\* a program was loaded, and in a later run reused, without verifier log
C37_WitnessReuse ==
    /\ run = 2 /\ vlogs = {}
    /\ pc = "loadCodeSections" /\ Len(progFds) = 1 /\ progFds[1].ok /\ progFds[1].reuse

-----------------------------------------------------------------------------
(* The range of the loader version *)

\* doLoad has computed bpfloader_ver in this run or in the one before
VersionComputed == pc # "doLoad" \/ run > 1

\* those of: API >= T, API >= U, running as root, API >= V, that hold
VersionSteps ==
    {s \in {"T", "U", "root", "V"} :
        \/ s = "T" /\ env.api >= 33
        \/ s = "U" /\ env.api >= 34
        \/ s = "root" /\ env.root
        \/ s = "V" /\ env.api >= 35}

\* loadAllElfObjects has been called in this run
LoadingBegun ==
    \/ pc \in {"loadAll", "loadProg", "finish"} \/ InObject
    \/ rets # {} \/ log # {} \/ records # NoRecords

\* C38: the loader version is 42 plus one for each of API >= T, API >= U,
\* running as root and API >= V, hence between 42 and 46, and at least 43
\* whenever an object is loaded
C38_LoaderVersionRange ==
    /\ VersionComputed =>
          /\ bpfloader_ver = 42 + Cardinality(VersionSteps)
          /\ bpfloader_ver >= 42 /\ bpfloader_ver <= 46
    /\ LoadingBegun => bpfloader_ver >= 43

\* an object was loaded by a loader of version 43
C38_Witness ==
    /\ bpfloader_ver = 43
    /\ \E r \in rets : r.ret = 0 /\ PinsBy(r.loc, r.obj) # {}

\* one by a loader of version 46; a loader of version 42 ended with status
\* 1 before loading
C38_WitnessV ==
    /\ bpfloader_ver = 46
    /\ \E r \in rets : r.ret = 0 /\ PinsBy(r.loc, r.obj) # {}

C38_WitnessBelowT ==
    /\ bpfloader_ver = 42 /\ pc = "exited" /\ exitCode = 1 /\ mkdirs = << >>
====
